---------------------------- MODULE Spec2Model ----------------------------
(***************************************************************************)
(* Model of the fixed-timestep rigid-body physics core of the engine:      *)
(*   core/time.py     TimeManager      (the step scheduler)                *)
(*   core/scene.py    Entity, SceneManager (the entity/component store)    *)
(*   core/physics.py  PhysicsEngine    (integrate, detect, resolve)        *)
(*   core/engine.py   EngineCore       (play/stop and the frame update)    *)
(*   editor/scene_serializer.py        (scene loading)                     *)
(*                                                                         *)
(* Numbers.  The program computes with IEEE doubles.  The model computes   *)
(* with exact rationals <<n, d>> (d > 0, lowest terms), so every equation  *)
(* below is the real-number reading of the code ("within tolerance").      *)
(*                                                                         *)
(* Objects.  Python entities are objects that outlive their removal from   *)
(* the store.  `ents` is the heap: a sequence of entity records indexed by *)
(* handle (allocation order); 0 is None.  The store's id table `entities`  *)
(* is an insertion-ordered list of <<id, handle>> pairs (a Python dict).   *)
(***************************************************************************)
EXTENDS Integers, Sequences, FiniteSets, TLC

VARIABLES
  \* ---- wall clock (environment) and core/time.py TimeManager ----
  clock,              \* time.time(), in hundredths of a second
  time,               \* TimeManager.time
  delta_time,         \* TimeManager.delta_time
  fixed_delta_time,   \* TimeManager.fixed_delta_time
  time_scale,         \* TimeManager.time_scale
  last_frame_time,    \* TimeManager._last_frame_time
  fixed_accumulator,  \* TimeManager._fixed_accumulator
  \* ---- core/engine.py EngineCore ----
  is_playing,         \* EngineCore.is_playing
  \* ---- core/scene.py SceneManager and the entity heap ----
  ents,               \* heap of Entity objects, by handle
  entities,           \* SceneManager.entities (dict id -> Entity)
  root_entities,      \* SceneManager.root_entities
  next_entity_id,     \* SceneManager._next_entity_id
  \* ---- core/physics.py PhysicsEngine ----
  collision_pairs,    \* PhysicsEngine.collision_pairs
  rigidbody_entities, \* local list of PhysicsEngine.update
  pc,                 \* position inside PhysicsEngine.update
  li, lj,             \* loop indices of the running loop of update
  \* ---- core/scripting.py ScriptManager ----
  script_instances,   \* ScriptManager.script_instances (dict id -> list)
  script_removed,     \* the instances remove_entity_scripts has dropped
  \* ---- history (observation; guards read it only to bound the run) ----
  frame,              \* scheduler: what happened since the last advance
  call,               \* last call of a scheduler / engine operation
  edit,               \* last store operation
  trace,              \* events of the current physics step, in order
  pre_step,           \* heap at the start of the current physics step
  post_int,           \* heap when the integration loop of the step ended
  pre_res,            \* heap before the last _resolve_collision
  history,            \* per run: the heap at the start, how often each
                      \* entity was integrated, which entities a resolved
                      \* contact has named, the direct detector calls
  steps, edits        \* counters that bound the exploration

timeVars  == <<clock, time, delta_time, fixed_delta_time, time_scale,
               last_frame_time, fixed_accumulator, is_playing, frame, call>>
storeVars == <<ents, entities, root_entities, next_entity_id, edit>>
physVars  == <<collision_pairs, rigidbody_entities, pc, li, lj, trace,
               pre_step, post_int, pre_res, history, steps, edits>>
scriptVars == <<script_instances, script_removed>>
vars == <<timeVars, storeVars, physVars, scriptVars>>

None == 0

(***************************************************************************)
(* Exact rational arithmetic                                               *)
(***************************************************************************)
Abs(n) == IF n < 0 THEN -n ELSE n

RECURSIVE GCD(_, _)
GCD(a, b) == IF b = 0 THEN a ELSE GCD(b, a % b)

\* the rational n/d in lowest terms with a positive denominator
Q(n, d) ==
  LET g == GCD(Abs(n), Abs(d))
      s == IF d < 0 THEN -1 ELSE 1
  IN  <<(s * n) \div g, (s * d) \div g>>

Z(n) == <<n, 1>>

RNeg(a) == <<-a[1], a[2]>>
RAdd(a, b) ==
  LET g == GCD(a[2], b[2])
  IN  Q(a[1] * (b[2] \div g) + b[1] * (a[2] \div g), a[2] * (b[2] \div g))
RSub(a, b) == RAdd(a, RNeg(b))
RMul(a, b) ==
  LET g1 == GCD(Abs(a[1]), b[2])
      g2 == GCD(Abs(b[1]), a[2])
  IN  Q((a[1] \div g1) * (b[1] \div g2), (a[2] \div g2) * (b[2] \div g1))
RInv(a) == Q(a[2], a[1])
RDiv(a, b) == RMul(a, RInv(b))
RSign(a) == IF a[1] > 0 THEN 1 ELSE IF a[1] < 0 THEN -1 ELSE 0
RLt(a, b) == RSign(RSub(a, b)) < 0
RLe(a, b) == RSign(RSub(a, b)) <= 0
RGt(a, b) == RLt(b, a)
RGe(a, b) == RLe(b, a)
RAbs(a) == <<Abs(a[1]), a[2]>>
RMin(a, b) == IF RLe(a, b) THEN a ELSE b
RMax(a, b) == IF RGe(a, b) THEN a ELSE b
RFloor(a) == a[1] \div a[2]

\* 3-vectors (numpy arrays of length 3), componentwise
V3(x, y, z) == <<x, y, z>>
Zero3 == V3(Z(0), Z(0), Z(0))
One3  == V3(Z(1), Z(1), Z(1))
VAdd(u, v) == [k \in 1..3 |-> RAdd(u[k], v[k])]
VSub(u, v) == [k \in 1..3 |-> RSub(u[k], v[k])]
VMul(u, v) == [k \in 1..3 |-> RMul(u[k], v[k])]
VScale(u, c) == [k \in 1..3 |-> RMul(u[k], c)]
VDivS(u, c) == [k \in 1..3 |-> RDiv(u[k], c)]
RNegV(u) == [k \in 1..3 |-> RNeg(u[k])]
VDot(u, v) == RAdd(RAdd(RMul(u[1], v[1]), RMul(u[2], v[2])), RMul(u[3], v[3]))

(***************************************************************************)
(* core/components.py and core/scene.py: components, Transform, Entity     *)
(***************************************************************************)
\* RigidbodyComponent(): the dataclass defaults, velocity arrays zeroed
RigidbodyDefaults ==
  [mass |-> Z(1), use_gravity |-> TRUE, is_kinematic |-> FALSE,
   linear_drag |-> Z(0), angular_drag |-> Q(1, 20),
   velocity |-> Zero3, angular_velocity |-> Zero3]

\* ColliderComponent(): the dataclass defaults, size (1,1,1)
ColliderDefaults ==
  [collider_type |-> "box", size |-> One3, radius |-> Q(1, 2),
   height |-> Z(2), is_trigger |-> FALSE]

\* CameraComponent(): a component kind the physics core ignores
CameraDefaults ==
  [fov |-> Z(60), near_plane |-> Q(1, 10), far_plane |-> Z(1000),
   is_main |-> FALSE]

\* Transform(): position 0, rotation 0, scale 1
TransformDefault == [position |-> Zero3, rotation |-> Zero3, scale |-> One3]

NoComponents == [k \in {} |-> None]

\* Entity(name, entity_id)
NewEntity(name, entity_id) ==
  [name |-> name, id |-> entity_id, transform |-> TransformDefault,
   parent |-> None, children |-> <<>>, components |-> NoComponents,
   active |-> TRUE]

\* list.remove(x): drops the first occurrence of x
RemoveFirst(s, x) ==
  IF \E i \in 1..Len(s) : s[i] = x
  THEN LET i == CHOOSE i \in 1..Len(s) : s[i] = x /\ \A k \in 1..(i - 1) : s[k] # x
       IN  SubSeq(s, 1, i - 1) \o SubSeq(s, i + 1, Len(s))
  ELSE s

InSeq(x, s) == \E i \in 1..Len(s) : s[i] = x

\* Entity.add_component on the entity with handle h
AddComponent(heap, h, kind, component) ==
  [heap EXCEPT ![h].components = (kind :> component) @@ @]

\* Entity.add_child: child.parent = self; self.children.append(child)
AddChild(heap, p, c) ==
  [heap EXCEPT ![c].parent = p, ![p].children = Append(@, c)]

\* Entity.remove_child: only when child is in self.children
RemoveChild(heap, p, c) ==
  IF InSeq(c, heap[p].children)
  THEN [heap EXCEPT ![c].parent = None, ![p].children = RemoveFirst(@, c)]
  ELSE heap

(***************************************************************************)
(* core/scene.py: SceneManager.  A store value st is the record            *)
(* [ents, entities, root_entities, next_entity_id].                        *)
(***************************************************************************)
Store ==
  [ents |-> ents, entities |-> entities, root_entities |-> root_entities,
   next_entity_id |-> next_entity_id]

\* SceneManager.__init__
EmptyStore ==
  [ents |-> <<>>, entities |-> <<>>, root_entities |-> <<>>,
   next_entity_id |-> 1]

\* faulty variant of DictDel: the entry stays in the dict
DictDelNothing(d, key) == d

\* dict operations on the insertion-ordered list of <<key, value>> pairs
DictHas(d, key) == \E i \in 1..Len(d) : d[i][1] = key
DictGet(d, key) ==
  IF DictHas(d, key)
  THEN d[CHOOSE i \in 1..Len(d) : d[i][1] = key][2]
  ELSE None
DictSet(d, key, value) ==
  IF DictHas(d, key)
  THEN [i \in 1..Len(d) |-> IF d[i][1] = key THEN <<key, value>> ELSE d[i]]
  ELSE Append(d, <<key, value>>)
DictDel(d, key) == SelectSeq(d, LAMBDA kv : kv[1] # key)
DictValues(d) == [i \in 1..Len(d) |-> d[i][2]]

\* SceneManager.create_entity; the new entity's handle is Len(result.ents)
CreateEntity(st, name, parent) ==
  LET h    == Len(st.ents) + 1
      e    == NewEntity(name, st.next_entity_id)
      heap == Append(st.ents, e)
  IN  [ents |-> IF parent # None THEN AddChild(heap, parent, h) ELSE heap,
       entities |-> DictSet(st.entities, e.id, h),
       root_entities |-> IF parent # None THEN st.root_entities
                         ELSE Append(st.root_entities, h),
       next_entity_id |-> st.next_entity_id + 1]

\* faulty variant of DestroyEntity: the children are not destroyed
DestroyEntityShallow(st, h) ==
  LET p  == st.ents[h].parent
      s2 == IF p # None
            THEN [st EXCEPT !.ents = RemoveChild(st.ents, p, h)]
            ELSE IF InSeq(h, st.root_entities)
                 THEN [st EXCEPT !.root_entities = RemoveFirst(@, h)]
                 ELSE st
  IN  IF DictHas(s2.entities, s2.ents[h].id)
      THEN [s2 EXCEPT !.entities = DictDel(@, s2.ents[h].id)]
      ELSE s2

\* SceneManager.destroy_entity: children first, then detach, then the table
RECURSIVE DestroyEntity(_, _)
RECURSIVE DestroyAll(_, _)
DestroyAll(st, kids) ==
  IF kids = <<>> THEN st
  ELSE DestroyAll(DestroyEntity(st, Head(kids)), Tail(kids))

DestroyEntity(st, h) ==
  LET s1 == DestroyAll(st, st.ents[h].children)
      p  == s1.ents[h].parent
      s2 == IF p # None
            THEN [s1 EXCEPT !.ents = RemoveChild(s1.ents, p, h)]
            ELSE IF InSeq(h, s1.root_entities)
                 THEN [s1 EXCEPT !.root_entities = RemoveFirst(@, h)]
                 ELSE s1
  IN  IF DictHas(s2.entities, s2.ents[h].id)
      THEN [s2 EXCEPT !.entities = DictDel(@, s2.ents[h].id)]
      ELSE s2

\* SceneManager.get_entity
GetEntity(st, entity_id) == DictGet(st.entities, entity_id)

\* SceneManager.clear
Clear(st) ==
  [st EXCEPT !.entities = <<>>, !.root_entities = <<>>, !.next_entity_id = 1]

\* SceneManager.get_all_entities: called by PhysicsEngine.update and the
\* renderer, defined nowhere in the sources.  Modelled from the store
\* contract: every entity of the id table currently marked active, in
\* insertion order.
GetAllEntities(st) ==
  SelectSeq(DictValues(st.entities), LAMBDA h : st.ents[h].active)

(***************************************************************************)
(* editor/scene_serializer.py: loading a scene file.  A scene file is the  *)
(* parsed JSON: a sequence of root entity records                          *)
(*   [name, active, transform, components, children].                      *)
(***************************************************************************)
\* A JSON list is the record [list |-> elements]; a numpy array is the tuple
\* of its elements.  ndarray.tolist() and np.array(list) convert.
ToList(array) == [list |-> array]
NpArray(value) == value.list

\* the component fields that hold a numpy array (core/components.py); in a
\* file written by save_scene these are the fields whose value is a list
ArrayFields == {"velocity", "angular_velocity", "size", "color"}

\* _deserialize_component, line 126: the keys whose lists become arrays
ListKeys ==
  {"position", "rotation", "scale", "color", "velocity", "angular_velocity",
   "size"}

\* SceneSerializer._deserialize_component: component_classes[kind](**data),
\* or None for a kind that is no component class.  The result is an
\* optional: <<component>>, or <<>> for None.
DeserializeComponent(kind, data) ==
  LET converted ==
        [key \in DOMAIN data |->
           IF key \in ArrayFields /\ key \in ListKeys
           THEN NpArray(data[key]) ELSE data[key]]
  IN  CASE kind = "rigidbody" -> <<converted @@ RigidbodyDefaults>>
        [] kind = "collider"  -> <<converted @@ ColliderDefaults>>
        [] kind = "camera"    -> <<converted @@ CameraDefaults>>
        [] OTHER              -> <<>>

RECURSIVE DeserializeEntity(_, _, _)
RECURSIVE DeserializeAll(_, _, _)
RECURSIVE RestoreComponents(_, _, _, _)

\* the loop "for comp_type, comp_data in data['components'].items()"
RestoreComponents(heap, h, data, kinds) ==
  IF kinds = {} THEN heap
  ELSE LET kind == CHOOSE k \in kinds : TRUE
           component == DeserializeComponent(kind, data[kind])
       IN  RestoreComponents(
             IF component # <<>> THEN AddComponent(heap, h, kind, component[1])
             ELSE heap,
             h, data, kinds \ {kind})

DeserializeAll(st, datas, parent) ==
  IF datas = <<>> THEN st
  ELSE DeserializeAll(DeserializeEntity(st, Head(datas), parent),
                      Tail(datas), parent)

\* SceneSerializer._deserialize_entity
DeserializeEntity(st, data, parent) ==
  LET s1 == CreateEntity(st, data.name, parent)
      h  == Len(s1.ents)
      h1 == [s1.ents EXCEPT
               ![h].active = data.active,
               ![h].transform =
                  [position |-> NpArray(data.transform.position),
                   rotation |-> NpArray(data.transform.rotation),
                   scale    |-> NpArray(data.transform.scale)]]
      h2 == RestoreComponents(h1, h, data.components, DOMAIN data.components)
  IN  DeserializeAll([s1 EXCEPT !.ents = h2], data.children, h)

\* SceneSerializer.load_scene: clear, then deserialize every root
LoadScene(st, scene) == DeserializeAll(Clear(st), scene, None)

\* faulty variant of SerializeComponent: the array fields are left out
SerializeComponentScalarsOnly(component) ==
  [key \in DOMAIN component \ ArrayFields |-> component[key]]

\* SceneSerializer._serialize_component: the fields of the component, arrays
\* written as lists
SerializeComponent(component) ==
  [key \in DOMAIN component |->
     IF key \in ArrayFields THEN ToList(component[key]) ELSE component[key]]

\* SceneSerializer._serialize_entity
RECURSIVE SerializeEntity(_, _)
SerializeEntity(heap, h) ==
  [name |-> heap[h].name,
   active |-> heap[h].active,
   transform |-> [position |-> ToList(heap[h].transform.position),
                  rotation |-> ToList(heap[h].transform.rotation),
                  scale    |-> ToList(heap[h].transform.scale)],
   components |-> [kind \in DOMAIN heap[h].components |->
                     SerializeComponent(heap[h].components[kind])],
   children |-> [i \in 1..Len(heap[h].children) |->
                   SerializeEntity(heap, heap[h].children[i])]]

\* SceneSerializer.save_scene: the root entities, in order
SaveScene(st) ==
  [i \in 1..Len(st.root_entities) |->
     SerializeEntity(st.ents, st.root_entities[i])]

RECURSIVE SceneSize(_)
SceneSize(datas) ==
  IF datas = <<>> THEN 0
  ELSE 1 + SceneSize(Head(datas).children) + SceneSize(Tail(datas))

(***************************************************************************)
(* The scene files the model loads                                         *)
(***************************************************************************)
At(x, y, z) ==
  [position |-> ToList(V3(x, y, z)), rotation |-> ToList(Zero3),
   scale |-> ToList(One3)]

EntityData(name, active, transform, components, children) ==
  [name |-> name, active |-> active, transform |-> transform,
   components |-> components, children |-> children]

\* a serialized rigidbody: every field written, as save_scene writes them
Body(mass, velocity, gravity, kinematic, drag) ==
  [mass |-> mass, use_gravity |-> gravity, is_kinematic |-> kinematic,
   linear_drag |-> drag, angular_drag |-> Z(0),
   velocity |-> ToList(velocity), angular_velocity |-> ToList(Zero3)]

UnitBox == [collider_type |-> "box", size |-> ToList(One3),
            radius |-> Q(1, 2), height |-> Z(2), is_trigger |-> FALSE]

Physical(body) == [rigidbody |-> body, collider |-> UnitBox]

\* two unit-mass boxes approaching head-on at +2 and -2 along x
SceneHeadOn ==
  << EntityData("a", TRUE, At(Z(0), Z(0), Z(0)),
        Physical(Body(Z(1), V3(Z(2), Z(0), Z(0)), FALSE, FALSE, Z(0))), <<>>),
     EntityData("b", TRUE, At(Q(1, 2), Z(0), Z(0)),
        Physical(Body(Z(1), V3(Z(-2), Z(0), Z(0)), FALSE, FALSE, Z(0))), <<>>) >>

\* a dynamic box of mass 2 falling onto a kinematic box
SceneFloor ==
  << EntityData("floor", TRUE, At(Z(0), Z(0), Z(0)),
        Physical(Body(Z(1), Zero3, TRUE, TRUE, Z(0))), <<>>),
     EntityData("crate", TRUE, At(Z(0), Q(3, 4), Z(0)),
        Physical(Body(Z(2), Zero3, TRUE, FALSE, Z(0))), <<>>) >>

\* three boxes in a row with masses 1, 3, 2: a-b approach, b-c separate
SceneRow ==
  << EntityData("a", TRUE, At(Z(0), Z(0), Z(0)),
        Physical(Body(Z(1), V3(Z(1), Z(0), Z(0)), FALSE, FALSE, Z(0))), <<>>),
     EntityData("b", TRUE, At(Q(1, 2), Z(0), Z(0)),
        Physical(Body(Z(3), V3(Z(-1), Z(0), Z(0)), FALSE, FALSE, Z(0))), <<>>),
     EntityData("c", TRUE, At(Z(1), Z(0), Z(0)),
        Physical(Body(Z(2), V3(Z(1), Z(0), Z(0)), FALSE, FALSE, Z(25))), <<>>) >>

\* a camera rig with a physical child and a physical grandchild
SceneTree ==
  << EntityData("rig", TRUE, At(Z(0), Z(0), Z(0)),
        [camera |-> [fov |-> Z(90), is_main |-> TRUE]],
        << EntityData("arm", TRUE, At(Z(0), Z(0), Z(0)),
              Physical(Body(Z(1), Zero3, FALSE, FALSE, Z(0))),
              << EntityData("hand", TRUE, At(Z(0), Z(0), Q(1, 4)),
                    Physical(Body(Z(1), V3(Z(0), Z(0), Z(-1)), FALSE, FALSE, Z(0))),
                    <<>>) >>) >>) >>

\* an inactive moving box overlapping an active one, and a kinematic one
SceneInactive ==
  << EntityData("on", TRUE, At(Z(0), Z(0), Z(0)),
        Physical(Body(Z(1), V3(Z(0), Z(1), Z(0)), FALSE, FALSE, Z(0))), <<>>),
     EntityData("off", FALSE, At(Z(0), Q(1, 2), Z(0)),
        Physical(Body(Z(1), V3(Z(0), Z(-1), Z(0)), TRUE, FALSE, Z(0))), <<>>),
     EntityData("wall", TRUE, At(Z(0), Q(-3, 4), Z(0)),
        Physical(Body(Z(1), Zero3, FALSE, TRUE, Z(0))), <<>>) >>

\* static scenery (collider only), a body without collider, a dynamic box
SceneStatic ==
  << EntityData("ground", TRUE, At(Z(0), Z(0), Z(0)),
        [collider |-> UnitBox], <<>>),
     EntityData("ghost", TRUE, At(Z(0), Q(1, 4), Z(0)),
        [rigidbody |-> Body(Z(1), Zero3, TRUE, FALSE, Z(0))], <<>>),
     EntityData("crate", TRUE, At(Z(0), Q(1, 2), Z(0)),
        Physical(Body(Z(1), Zero3, TRUE, FALSE, Z(0))), <<>>) >>

Shape(kind) == [collider_type |-> kind, size |-> ToList(One3),
                radius |-> Q(1, 2), height |-> Z(2), is_trigger |-> FALSE]

\* a ball resting in a kinematic box, a second ball and a capsule above it
SceneBalls ==
  << EntityData("ball", TRUE, At(Z(0), Q(9, 10), Z(0)),
        [rigidbody |-> Body(Z(1), Zero3, TRUE, FALSE, Z(0)),
         collider |-> Shape("sphere")], <<>>),
     EntityData("floor", TRUE, At(Z(0), Z(0), Z(0)),
        Physical(Body(Z(1), Zero3, FALSE, TRUE, Z(0))), <<>>),
     EntityData("top", TRUE, At(Z(0), Q(17, 10), Z(0)),
        [rigidbody |-> Body(Z(2), V3(Z(0), Z(-1), Z(0)), FALSE, FALSE, Z(0)),
         collider |-> Shape("sphere")], <<>>),
     EntityData("pill", TRUE, At(Z(0), Q(17, 10), Z(0)),
        [rigidbody |-> Body(Z(1), Zero3, FALSE, FALSE, Z(0)),
         collider |-> Shape("capsule")], <<>>) >>

\* static scenery (collider only), two kinematic boxes and a dynamic box in
\* a row, each overlapping the next by half a unit
SceneScenery ==
  << EntityData("slab", TRUE, At(Z(0), Z(0), Z(0)),
        [collider |-> UnitBox], <<>>),
     EntityData("k1", TRUE, At(Q(1, 2), Z(0), Z(0)),
        Physical(Body(Z(1), Zero3, FALSE, TRUE, Z(0))), <<>>),
     EntityData("k2", TRUE, At(Z(1), Z(0), Z(0)),
        Physical(Body(Z(1), Zero3, FALSE, TRUE, Z(0))), <<>>),
     EntityData("d", TRUE, At(Q(3, 2), Z(0), Z(0)),
        Physical(Body(Z(2), V3(Z(-1), Z(0), Z(0)), FALSE, FALSE, Z(0))), <<>>) >>

\* bodies without collider: one spinning with angular drag, one whose
\* linear drag is exactly 1/step, one whose drags exceed 1/step, one at rest
SceneSpin ==
  << EntityData("spinner", TRUE, At(Z(0), Z(0), Z(0)),
        [rigidbody |->
           [Body(Z(1), V3(Z(1), Z(0), Z(0)), TRUE, FALSE, Z(5))
              EXCEPT !.angular_velocity = ToList(V3(Z(0), Z(2), Z(-1))),
                     !.angular_drag = Z(10)]], <<>>),
     EntityData("stopped", TRUE, At(Z(0), Z(0), Z(0)),
        [rigidbody |-> Body(Z(1), V3(Z(3), Z(0), Z(-2)), FALSE, FALSE, Z(50))],
        <<>>),
     EntityData("flipped", TRUE, At(Z(0), Z(0), Z(0)),
        [rigidbody |->
           [Body(Z(1), V3(Z(3), Z(0), Z(-2)), TRUE, FALSE, Z(75))
              EXCEPT !.angular_velocity = ToList(V3(Z(1), Z(0), Z(0))),
                     !.angular_drag = Z(100)]], <<>>),
     EntityData("rest", TRUE, At(Z(0), Z(1), Z(0)),
        [rigidbody |-> Body(Z(1), Zero3, TRUE, FALSE, Z(0))], <<>>) >>

Scenes == {SceneHeadOn, SceneFloor, SceneRow, SceneTree, SceneInactive,
           SceneStatic, SceneBalls, SceneScenery, SceneSpin}

\* a scene file with is_trigger set on every collider (deep), or on the
\* collider of the first root entity only
RECURSIVE Triggered(_, _)
Triggered(datas, deep) ==
  IF datas = <<>> THEN <<>>
  ELSE LET data == Head(datas)
           components ==
             IF "collider" \in DOMAIN data.components
             THEN [data.components EXCEPT !["collider"].is_trigger = TRUE]
             ELSE data.components
           children == IF deep THEN Triggered(data.children, deep)
                       ELSE data.children
       IN  <<[data EXCEPT !.components = components,
                          !.children = children]>>
           \o (IF deep THEN Triggered(Tail(datas), deep) ELSE Tail(datas))

TriggerScenes == {Triggered(scene, deep) : scene \in Scenes, deep \in BOOLEAN}

\* scene files of two colliders: x of shape kind_x at pos_x with scale scale_x,
\* y of shape kind_y at pos_x + offset with scale scale_y
PairScene(kind_x, kind_y, pos_x, offset, scale_x, scale_y) ==
  << EntityData("x", TRUE,
        [position |-> ToList(pos_x), rotation |-> ToList(Zero3),
         scale |-> ToList(scale_x)],
        [rigidbody |-> Body(Z(1), Zero3, FALSE, FALSE, Z(0)),
         collider |-> Shape(kind_x)], <<>>),
     EntityData("y", TRUE,
        [position |-> ToList(VAdd(pos_x, offset)), rotation |-> ToList(Zero3),
         scale |-> ToList(scale_y)],
        [rigidbody |-> Body(Z(2), Zero3, FALSE, FALSE, Z(0)),
         collider |-> Shape(kind_y)], <<>>) >>

PairPositions == {Zero3, V3(Z(1), Q(-1, 2), Z(2))}
PairScales    == {One3, V3(Z(2), Z(2), Z(2)), V3(Z(1), Z(2), Z(1))}

\* offsets between two boxes: apart, touching, overlapping, overlaps tied
BoxBoxOffsets ==
  {Zero3, V3(Q(1, 2), Z(0), Z(0)), V3(Z(1), Z(0), Z(0)),
   V3(Q(-1, 2), Z(0), Z(0)), V3(Q(1, 2), Q(1, 2), Z(0)),
   V3(Q(1, 2), Q(1, 2), Q(1, 2)), V3(Q(1, 4), Q(1, 2), Q(1, 2)),
   V3(Z(0), Q(-1, 4), Z(0)), V3(Q(3, 4), Z(0), Q(-3, 4)),
   V3(Z(0), Z(0), Q(3, 2)), V3(Z(3), Z(0), Z(0))}

\* offsets between two sphere centers, all of rational length
SphereSphereOffsets ==
  {Zero3, V3(Q(1, 2), Z(0), Z(0)), V3(Z(1), Z(0), Z(0)),
   V3(Q(3, 2), Z(0), Z(0)), V3(Z(2), Z(0), Z(0)),
   V3(Z(0), Q(-1, 4), Z(0)), V3(Q(3, 10), Q(2, 5), Z(0)),
   V3(Z(0), Z(0), Q(-3, 4)), V3(Q(6, 5), Z(0), Q(8, 5)),
   V3(Z(3), Z(0), Z(0))}

\* offsets from a box center to a sphere center: center inside the box, on
\* its surface, outside next to a face, outside next to an edge
BoxSphereOffsets ==
  {Zero3, V3(Z(0), Q(-1, 4), Z(0)), V3(Z(0), Q(1, 2), Z(0)),
   V3(Q(3, 4), Z(0), Z(0)), V3(Q(-3, 4), Z(0), Z(0)),
   V3(Z(1), Z(0), Z(0)), V3(Q(3, 2), Z(0), Z(0)),
   V3(Q(4, 5), Q(9, 10), Z(0)), V3(Z(0), Z(0), Q(-5, 4)),
   V3(Q(1, 2), Q(1, 2), Q(1, 2)), V3(Z(3), Z(0), Z(0))}

PairOffsets(kind_x, kind_y) ==
  CASE kind_x = "box" /\ kind_y = "box"       -> BoxBoxOffsets
    [] kind_x = "sphere" /\ kind_y = "sphere" -> SphereSphereOffsets
    [] kind_x = "box" /\ kind_y = "sphere"    -> BoxSphereOffsets
    [] kind_x = "sphere" /\ kind_y = "box"    -> {RNegV(o) : o \in BoxSphereOffsets}
    [] OTHER                                  -> {Zero3, V3(Q(1, 2), Z(0), Z(0))}

PairKinds == {<<"box", "box">>, <<"sphere", "sphere">>, <<"box", "sphere">>,
              <<"sphere", "box">>, <<"box", "capsule">>, <<"mesh", "sphere">>}

PairScenes ==
  UNION {{PairScene(k[1], k[2], p, o, sx, sy) :
            p \in PairPositions, o \in PairOffsets(k[1], k[2]),
            sx \in PairScales, sy \in PairScales} : k \in PairKinds}

(***************************************************************************)
(* core/physics.py: PhysicsEngine                                          *)
(***************************************************************************)
\* PhysicsEngine.__init__: self.gravity
Gravity == V3(Z(0), Q(-981, 100), Z(0))

\* faulty variant of Restitution: a perfectly elastic bounce
RestitutionElastic == Z(1)

\* restitution in _resolve_collision
Restitution == Q(1, 2)

HasComponent(heap, h, kind) == kind \in DOMAIN heap[h].components

\* CollisionInfo(entity_a, entity_b, point, normal, penetration)
CollisionInfo(a, b, point, normal, penetration) ==
  [entity_a |-> a, entity_b |-> b, point |-> point, normal |-> normal,
   penetration |-> penetration]

\* an Optional[CollisionInfo] is <<>> (None) or <<info>>
NoCollision == <<>>

\* faulty variant of Integrate: kinematic bodies are integrated as well
IntegrateKinematicToo(heap, h, dt) ==
  LET rb == heap[h].components["rigidbody"]
      acceleration == IF rb.use_gravity THEN Gravity ELSE Zero3
      v1 == VAdd(rb.velocity, VScale(acceleration, dt))
      v2 == VScale(v1, RSub(Z(1), RMul(rb.linear_drag, dt)))
      w2 == VScale(rb.angular_velocity,
                   RSub(Z(1), RMul(rb.angular_drag, dt)))
  IN  [heap EXCEPT
         ![h].components["rigidbody"].velocity = v2,
         ![h].components["rigidbody"].angular_velocity = w2,
         ![h].transform.position = VAdd(@, VScale(v2, dt)),
         ![h].transform.rotation = VAdd(@, VScale(w2, dt))]

\* faulty variant of Integrate: the position advances by the velocity the
\* body had before the step, the rotation likewise
IntegratePositionFirst(heap, h, dt) ==
  LET rb == heap[h].components["rigidbody"]
      acceleration == IF rb.use_gravity THEN Gravity ELSE Zero3
      v1 == VAdd(rb.velocity, VScale(acceleration, dt))
      v2 == VScale(v1, RSub(Z(1), RMul(rb.linear_drag, dt)))
      w2 == VScale(rb.angular_velocity,
                   RSub(Z(1), RMul(rb.angular_drag, dt)))
  IN  IF rb.is_kinematic THEN heap
      ELSE [heap EXCEPT
              ![h].components["rigidbody"].velocity = v2,
              ![h].components["rigidbody"].angular_velocity = w2,
              ![h].transform.position = VAdd(@, VScale(rb.velocity, dt)),
              ![h].transform.rotation =
                 VAdd(@, VScale(rb.angular_velocity, dt))]

\* faulty variant of Integrate: gravity acts whatever use_gravity says
IntegrateGravityAlways(heap, h, dt) ==
  LET rb == heap[h].components["rigidbody"]
      acceleration == Gravity
      v1 == VAdd(rb.velocity, VScale(acceleration, dt))
      v2 == VScale(v1, RSub(Z(1), RMul(rb.linear_drag, dt)))
      w2 == VScale(rb.angular_velocity,
                   RSub(Z(1), RMul(rb.angular_drag, dt)))
  IN  IF rb.is_kinematic THEN heap
      ELSE [heap EXCEPT
              ![h].components["rigidbody"].velocity = v2,
              ![h].components["rigidbody"].angular_velocity = w2,
              ![h].transform.position = VAdd(@, VScale(v2, dt)),
              ![h].transform.rotation = VAdd(@, VScale(w2, dt))]

\* PhysicsEngine._integrate
Integrate(heap, h, dt) ==
  LET rb == heap[h].components["rigidbody"]
      acceleration == IF rb.use_gravity THEN Gravity ELSE Zero3
      v1 == VAdd(rb.velocity, VScale(acceleration, dt))
      v2 == VScale(v1, RSub(Z(1), RMul(rb.linear_drag, dt)))
      w2 == VScale(rb.angular_velocity,
                   RSub(Z(1), RMul(rb.angular_drag, dt)))
  IN  IF rb.is_kinematic THEN heap
      ELSE [heap EXCEPT
              ![h].components["rigidbody"].velocity = v2,
              ![h].components["rigidbody"].angular_velocity = w2,
              ![h].transform.position = VAdd(@, VScale(v2, dt)),
              ![h].transform.rotation = VAdd(@, VScale(w2, dt))]

\* faulty variant of CheckBoxBox: boxes that merely touch collide
CheckBoxBoxTouching(heap, a, b) ==
  LET pos_a  == heap[a].transform.position
      pos_b  == heap[b].transform.position
      size_a == VMul(heap[a].components["collider"].size, heap[a].transform.scale)
      size_b == VMul(heap[b].components["collider"].size, heap[b].transform.scale)
      half_a == VDivS(size_a, Z(2))
      half_b == VDivS(size_b, Z(2))
      overlap == [k \in 1..3 |->
                    RSub(RAdd(half_a[k], half_b[k]),
                         RAbs(RSub(pos_a[k], pos_b[k])))]
      min_overlap == RMin(RMin(overlap[1], overlap[2]), overlap[3])
      axis == IF min_overlap = overlap[1] THEN 1
              ELSE IF min_overlap = overlap[2] THEN 2 ELSE 3
      normal == [k \in 1..3 |->
                   IF k # axis THEN Z(0)
                   ELSE IF RLt(pos_a[k], pos_b[k]) THEN Z(1) ELSE Z(-1)]
      point == VDivS(VAdd(pos_a, pos_b), Z(2))
  IN  IF RSign(overlap[1]) >= 0 /\ RSign(overlap[2]) >= 0 /\ RSign(overlap[3]) >= 0
      THEN <<CollisionInfo(a, b, point, normal, min_overlap)>>
      ELSE NoCollision

\* PhysicsEngine._check_box_box
CheckBoxBox(heap, a, b) ==
  LET pos_a  == heap[a].transform.position
      pos_b  == heap[b].transform.position
      size_a == VMul(heap[a].components["collider"].size, heap[a].transform.scale)
      size_b == VMul(heap[b].components["collider"].size, heap[b].transform.scale)
      half_a == VDivS(size_a, Z(2))
      half_b == VDivS(size_b, Z(2))
      overlap == [k \in 1..3 |->
                    RSub(RAdd(half_a[k], half_b[k]),
                         RAbs(RSub(pos_a[k], pos_b[k])))]
      min_overlap == RMin(RMin(overlap[1], overlap[2]), overlap[3])
      axis == IF min_overlap = overlap[1] THEN 1
              ELSE IF min_overlap = overlap[2] THEN 2 ELSE 3
      normal == [k \in 1..3 |->
                   IF k # axis THEN Z(0)
                   ELSE IF RLt(pos_a[k], pos_b[k]) THEN Z(1) ELSE Z(-1)]
      point == VDivS(VAdd(pos_a, pos_b), Z(2))
  IN  IF RSign(overlap[1]) > 0 /\ RSign(overlap[2]) > 0 /\ RSign(overlap[3]) > 0
      THEN <<CollisionInfo(a, b, point, normal, min_overlap)>>
      ELSE NoCollision

\* integer square root, rounded down
RECURSIVE ISqrtIn(_, _, _)
ISqrtIn(n, lo, hi) ==
  IF lo >= hi THEN lo
  ELSE LET mid == (lo + hi + 1) \div 2
       IN  IF mid * mid <= n THEN ISqrtIn(n, mid, hi)
           ELSE ISqrtIn(n, lo, mid - 1)
ISqrt(n) == ISqrtIn(n, 0, IF n < 46340 THEN n ELSE 46340)

\* the root of a rational >= 0: exact when it is rational, else rounded
\* down to a multiple of 1/1000 (the program rounds it to a double)
RSqrt(q) ==
  LET rn == ISqrt(q[1])
      rd == ISqrt(q[2])
  IN  IF rn * rn = q[1] /\ rd * rd = q[2] THEN Q(rn, rd)
      ELSE Q(ISqrt((q[1] * (1000 * 1000)) \div q[2]), 1000)

\* np.linalg.norm of a 3-vector
VNorm(v) ==
  IF Cardinality({k \in 1..3 : v[k][1] # 0}) <= 1
  THEN RAbs(RAdd(RAdd(v[1], v[2]), v[3]))
  ELSE RSqrt(VDot(v, v))

\* faulty variant of MaxScale: the x component of the scale
MaxScaleFirst(heap, h) == heap[h].transform.scale[1]

\* max(entity.transform.scale)
MaxScale(heap, h) ==
  LET sc == heap[h].transform.scale IN RMax(RMax(sc[1], sc[2]), sc[3])

\* faulty variant of FallbackNormal: a zero vector
FallbackNormalZero == Zero3

\* the normal of a contact whose distance is zero: np.array([0.0, 1.0, 0.0])
FallbackNormal == V3(Z(0), Z(1), Z(0))

\* PhysicsEngine._check_sphere_sphere
CheckSphereSphere(heap, a, b) ==
  LET pos_a    == heap[a].transform.position
      pos_b    == heap[b].transform.position
      radius_a == RMul(heap[a].components["collider"].radius, MaxScale(heap, a))
      radius_b == RMul(heap[b].components["collider"].radius, MaxScale(heap, b))
      delta    == VSub(pos_b, pos_a)
      distance == VNorm(delta)
      normal   == IF RSign(distance) > 0 THEN VDivS(delta, distance)
                  ELSE FallbackNormal
      penetration == RSub(RAdd(radius_a, radius_b), distance)
      point    == VAdd(pos_a, VScale(normal, radius_a))
  IN  IF RLt(distance, RAdd(radius_a, radius_b))
      THEN <<CollisionInfo(a, b, point, normal, penetration)>>
      ELSE NoCollision

\* np.clip(x, lo, hi), componentwise
VClip(x, lo, hi) == [k \in 1..3 |-> RMin(RMax(x[k], lo[k]), hi[k])]

\* PhysicsEngine._check_box_sphere
CheckBoxSphere(heap, box, sphere) ==
  LET box_pos    == heap[box].transform.position
      sphere_pos == heap[sphere].transform.position
      box_size   == VMul(heap[box].components["collider"].size,
                         heap[box].transform.scale)
      sphere_radius == RMul(heap[sphere].components["collider"].radius,
                            MaxScale(heap, sphere))
      half_size  == VDivS(box_size, Z(2))
      closest    == VAdd(VClip(VSub(sphere_pos, box_pos),
                               VScale(half_size, Z(-1)), half_size),
                         box_pos)
      delta      == VSub(sphere_pos, closest)
      distance   == VNorm(delta)
      normal     == IF RSign(distance) > 0 THEN VDivS(delta, distance)
                    ELSE FallbackNormal
      penetration == RSub(sphere_radius, distance)
  IN  IF RLt(distance, sphere_radius)
      THEN <<CollisionInfo(box, sphere, closest, normal, penetration)>>
      ELSE NoCollision

\* faulty variant of CheckCollision: a sphere listed before a box is not
\* handed to the box/sphere test
CheckCollisionBoxFirstOnly(heap, a, b) ==
  LET type_a == heap[a].components["collider"].collider_type
      type_b == heap[b].components["collider"].collider_type
  IN  CASE type_a = "box" /\ type_b = "box"       -> CheckBoxBox(heap, a, b)
        [] type_a = "sphere" /\ type_b = "sphere" -> CheckSphereSphere(heap, a, b)
        [] type_a = "box" /\ type_b = "sphere"    -> CheckBoxSphere(heap, a, b)
        [] OTHER                                  -> NoCollision

\* faulty variant of CheckCollision: a trigger collider collides with nothing
CheckCollisionSkippingTriggers(heap, a, b) ==
  LET type_a == heap[a].components["collider"].collider_type
      type_b == heap[b].components["collider"].collider_type
  IN  CASE heap[a].components["collider"].is_trigger
           \/ heap[b].components["collider"].is_trigger -> NoCollision
        [] type_a = "box" /\ type_b = "box"       -> CheckBoxBox(heap, a, b)
        [] type_a = "sphere" /\ type_b = "sphere" -> CheckSphereSphere(heap, a, b)
        [] type_a = "box" /\ type_b = "sphere"    -> CheckBoxSphere(heap, a, b)
        [] type_a = "sphere" /\ type_b = "box"    -> CheckBoxSphere(heap, b, a)
        [] OTHER                                  -> NoCollision

\* PhysicsEngine._check_collision: dispatch on the two collider types
CheckCollision(heap, a, b) ==
  LET type_a == heap[a].components["collider"].collider_type
      type_b == heap[b].components["collider"].collider_type
  IN  CASE type_a = "box" /\ type_b = "box"       -> CheckBoxBox(heap, a, b)
        [] type_a = "sphere" /\ type_b = "sphere" -> CheckSphereSphere(heap, a, b)
        [] type_a = "box" /\ type_b = "sphere"    -> CheckBoxSphere(heap, a, b)
        [] type_a = "sphere" /\ type_b = "box"    -> CheckBoxSphere(heap, b, a)
        [] OTHER                                  -> NoCollision

\* faulty variant of ResolveCollision: the separating test comes before the
\* position correction, so a separating pair is not pushed apart
ResolveCollisionApproachingOnly(heap, collision) ==
  LET a  == collision.entity_a
      b  == collision.entity_b
      ra == heap[a].components["rigidbody"]
      rb == heap[b].components["rigidbody"]
      correction == VScale(VScale(collision.normal, collision.penetration),
                           Q(1, 2))
      moved == [heap EXCEPT
                  ![a].transform.position =
                     IF ra.is_kinematic THEN @ ELSE VSub(@, correction),
                  ![b].transform.position =
                     IF rb.is_kinematic THEN @ ELSE VAdd(@, correction)]
      rel_velocity == VSub(rb.velocity, ra.velocity)
      velocity_along_normal == VDot(rel_velocity, collision.normal)
      impulse_scalar ==
        RDiv(RMul(RNeg(RAdd(Z(1), Restitution)), velocity_along_normal),
             RAdd(RDiv(Z(1), ra.mass), RDiv(Z(1), rb.mass)))
      impulse == VScale(collision.normal, impulse_scalar)
  IN  IF ~HasComponent(heap, a, "rigidbody") \/ ~HasComponent(heap, b, "rigidbody")
      THEN heap
      ELSE IF ra.is_kinematic /\ rb.is_kinematic THEN heap
      ELSE IF RSign(velocity_along_normal) > 0 THEN heap
      ELSE [moved EXCEPT
              ![a].components["rigidbody"].velocity =
                 IF ra.is_kinematic THEN @ ELSE VSub(@, VDivS(impulse, ra.mass)),
              ![b].components["rigidbody"].velocity =
                 IF rb.is_kinematic THEN @ ELSE VAdd(@, VDivS(impulse, rb.mass))]

\* faulty variant of ResolveCollision: a side without rigidbody is taken for
\* an immovable body and the other side is pushed away from it
ResolveCollisionAgainstScenery(heap, collision) ==
  LET a  == collision.entity_a
      b  == collision.entity_b
      has_a == HasComponent(heap, a, "rigidbody")
      has_b == HasComponent(heap, b, "rigidbody")
      ra == heap[a].components["rigidbody"]
      rb == heap[b].components["rigidbody"]
      kin_a == ~has_a \/ ra.is_kinematic
      kin_b == ~has_b \/ rb.is_kinematic
      correction == VScale(VScale(collision.normal, collision.penetration),
                           Q(1, 2))
      moved == [heap EXCEPT
                  ![a].transform.position =
                     IF kin_a THEN @ ELSE VSub(@, correction),
                  ![b].transform.position =
                     IF kin_b THEN @ ELSE VAdd(@, correction)]
      rel_velocity == VSub(rb.velocity, ra.velocity)
      velocity_along_normal == VDot(rel_velocity, collision.normal)
      impulse_scalar ==
        RDiv(RMul(RNeg(RAdd(Z(1), Restitution)), velocity_along_normal),
             RAdd(RDiv(Z(1), ra.mass), RDiv(Z(1), rb.mass)))
      impulse == VScale(collision.normal, impulse_scalar)
  IN  IF kin_a /\ kin_b THEN heap
      ELSE IF ~has_a \/ ~has_b THEN moved
      ELSE IF RSign(velocity_along_normal) > 0 THEN moved
      ELSE [moved EXCEPT
              ![a].components["rigidbody"].velocity =
                 IF ra.is_kinematic THEN @ ELSE VSub(@, VDivS(impulse, ra.mass)),
              ![b].components["rigidbody"].velocity =
                 IF rb.is_kinematic THEN @ ELSE VAdd(@, VDivS(impulse, rb.mass))]

\* faulty variant of ResolveCollision: the impulse is applied to both
\* velocities as it is, not divided by the body's mass
ResolveCollisionUndivided(heap, collision) ==
  LET a  == collision.entity_a
      b  == collision.entity_b
      ra == heap[a].components["rigidbody"]
      rb == heap[b].components["rigidbody"]
      correction == VScale(VScale(collision.normal, collision.penetration),
                           Q(1, 2))
      moved == [heap EXCEPT
                  ![a].transform.position =
                     IF ra.is_kinematic THEN @ ELSE VSub(@, correction),
                  ![b].transform.position =
                     IF rb.is_kinematic THEN @ ELSE VAdd(@, correction)]
      rel_velocity == VSub(rb.velocity, ra.velocity)
      velocity_along_normal == VDot(rel_velocity, collision.normal)
      impulse_scalar ==
        RDiv(RMul(RNeg(RAdd(Z(1), Restitution)), velocity_along_normal),
             RAdd(RDiv(Z(1), ra.mass), RDiv(Z(1), rb.mass)))
      impulse == VScale(collision.normal, impulse_scalar)
  IN  IF ~HasComponent(heap, a, "rigidbody") \/ ~HasComponent(heap, b, "rigidbody")
      THEN heap
      ELSE IF ra.is_kinematic /\ rb.is_kinematic THEN heap
      ELSE IF RSign(velocity_along_normal) > 0 THEN moved
      ELSE [moved EXCEPT
              ![a].components["rigidbody"].velocity =
                 IF ra.is_kinematic THEN @ ELSE VSub(@, impulse),
              ![b].components["rigidbody"].velocity =
                 IF rb.is_kinematic THEN @ ELSE VAdd(@, impulse)]

\* PhysicsEngine._resolve_collision
ResolveCollision(heap, collision) ==
  LET a  == collision.entity_a
      b  == collision.entity_b
      ra == heap[a].components["rigidbody"]
      rb == heap[b].components["rigidbody"]
      correction == VScale(VScale(collision.normal, collision.penetration),
                           Q(1, 2))
      moved == [heap EXCEPT
                  ![a].transform.position =
                     IF ra.is_kinematic THEN @ ELSE VSub(@, correction),
                  ![b].transform.position =
                     IF rb.is_kinematic THEN @ ELSE VAdd(@, correction)]
      rel_velocity == VSub(rb.velocity, ra.velocity)
      velocity_along_normal == VDot(rel_velocity, collision.normal)
      impulse_scalar ==
        RDiv(RMul(RNeg(RAdd(Z(1), Restitution)), velocity_along_normal),
             RAdd(RDiv(Z(1), ra.mass), RDiv(Z(1), rb.mass)))
      impulse == VScale(collision.normal, impulse_scalar)
  IN  IF ~HasComponent(heap, a, "rigidbody") \/ ~HasComponent(heap, b, "rigidbody")
      THEN heap
      ELSE IF ra.is_kinematic /\ rb.is_kinematic THEN heap
      ELSE IF RSign(velocity_along_normal) > 0 THEN moved
      ELSE [moved EXCEPT
              ![a].components["rigidbody"].velocity =
                 IF ra.is_kinematic THEN @ ELSE VSub(@, VDivS(impulse, ra.mass)),
              ![b].components["rigidbody"].velocity =
                 IF rb.is_kinematic THEN @ ELSE VAdd(@, VDivS(impulse, rb.mass))]

\* faulty variant of GatherRigidbodies: every entity of the id table with a
\* rigidbody, whatever its active flag
GatherRigidbodiesAll(st) ==
  SelectSeq(DictValues(st.entities),
            LAMBDA h : HasComponent(st.ents, h, "rigidbody"))

\* faulty variant of GatherRigidbodies: the bodies are gathered last
\* inserted first
GatherRigidbodiesReversed(st) ==
  LET list == SelectSeq(GetAllEntities(st),
                        LAMBDA h : HasComponent(st.ents, h, "rigidbody"))
  IN  [k \in 1..Len(list) |-> list[Len(list) + 1 - k]]

\* PhysicsEngine.update, lines 35-38: the active entities with a rigidbody
GatherRigidbodies(st) ==
  SelectSeq(GetAllEntities(st), LAMBDA h : HasComponent(st.ents, h, "rigidbody"))

\* the pair the loops of _detect_collisions visit after (i, j), of n
\* entities; a pair with j > n means the loops are over
FirstPair(n) == IF n >= 2 THEN <<1, 2>> ELSE <<n, n + 1>>
NextPair(i, j, n) ==
  IF j < n THEN <<i, j + 1>>
  ELSE IF i + 2 <= n THEN <<i + 1, i + 2>>
  ELSE <<n, n + 1>>

(***************************************************************************)
(* Bounds of the exploration and the inputs the actions draw from          *)
(***************************************************************************)
MaxClock   == 6     \* the wall clock stops at MaxClock hundredths of a second
MaxSteps   == 2     \* physics steps per run
MaxEdits   == 1     \* editor / script operations on a loaded scene per run
MaxObjects == 4     \* entity objects allocated per run of the store
MaxCalls   == 2     \* direct calls of the detector per run
MaxScripts == 2     \* script instances created per run
MaxLinks   == 2     \* direct add_child / remove_child calls per run

ClockSteps  == {1, 2, 5}                  \* wall time between two operations
TimeScales  == {Q(1, 2), Z(1)}            \* values written to time_scale
FrameDeltas == {Q(2, 125)}                \* delta_time given to EngineCore.update (0.016)
Names       == {"e"}                      \* entity names given to create_entity

\* time.time(): the wall clock in seconds
Now == Q(clock, 100)

(***************************************************************************)
(* Initial states                                                          *)
(***************************************************************************)
\* TimeManager.__init__
TimeInit ==
  /\ clock = 0
  /\ time = Z(0)
  /\ delta_time = Z(0)
  /\ fixed_delta_time = Q(1, 50)
  /\ time_scale = Z(1)
  /\ last_frame_time = Z(0)
  /\ fixed_accumulator = Z(0)
  /\ frame = [valid |-> FALSE, start |-> Z(0), added |-> Z(0),
              total |-> Z(0), consumed |-> 0, ret |-> "none"]
  /\ call = [op |-> "none"]

\* PhysicsEngine.__init__
PhysInit ==
  /\ collision_pairs = <<>>
  /\ rigidbody_entities = <<>>
  /\ pc = "idle"
  /\ li = 0
  /\ lj = 0
  /\ trace = <<>>
  /\ pre_step = <<>>
  /\ post_int = <<>>
  /\ pre_res = <<>>
  /\ steps = 0
  /\ edits = 0

\* ScriptManager.__init__
ScriptsInit ==
  /\ script_instances = <<>>
  /\ script_removed = <<>>

\* nothing has happened yet to the entities of heap
NewHistory(heap) ==
  [start |-> heap, integrated |-> [h \in 1..Len(heap) |-> 0], hit |-> {},
   detect_lists |-> <<>>, detect_before |-> <<>>, ray |-> [cast |-> FALSE]]

StoreIs(st) ==
  /\ ents = st.ents
  /\ entities = st.entities
  /\ root_entities = st.root_entities
  /\ next_entity_id = st.next_entity_id

StoreBecomes(st) ==
  /\ ents' = st.ents
  /\ entities' = st.entities
  /\ root_entities' = st.root_entities
  /\ next_entity_id' = st.next_entity_id

\* EngineCore.__init__ and initialize(): every subsystem fresh, not playing
EngineInit ==
  /\ TimeInit
  /\ PhysInit
  /\ ScriptsInit
  /\ StoreIs(EmptyStore)
  /\ history = NewHistory(ents)
  /\ edit = [op |-> "none"]
  /\ is_playing = FALSE

\* RuntimePlayer.__init__: initialize, load the scene file, play
PlayerInit ==
  /\ TimeInit
  /\ PhysInit
  /\ ScriptsInit
  /\ \E scene \in Scenes \cup TriggerScenes :
       StoreIs(LoadScene(EmptyStore, scene))
  /\ history = NewHistory(ents)
  /\ edit = [op |-> "none"]
  /\ is_playing = TRUE

(***************************************************************************)
(* Actions of the scheduler and the engine (core/time.py, core/engine.py)  *)
(***************************************************************************)
\* wall time passes
Tick(d) ==
  /\ clock + d <= MaxClock
  /\ clock' = clock + d
  /\ UNCHANGED <<time, delta_time, fixed_delta_time, time_scale,
                 last_frame_time, fixed_accumulator, is_playing, frame, call>>
  /\ UNCHANGED <<storeVars, physVars, scriptVars>>

\* TimeManager.update(): takes no argument, reads the wall clock
TimeUpdate ==
  LET current_time == Now
      delta == RMul(RSub(current_time, last_frame_time), time_scale)
  IN  /\ delta_time' = delta
      /\ last_frame_time' = current_time
      /\ time' = RAdd(time, delta)
      /\ fixed_accumulator' = RAdd(fixed_accumulator, delta)
      /\ frame' = [valid |-> TRUE, start |-> fixed_accumulator,
                   added |-> delta, total |-> RAdd(fixed_accumulator, delta),
                   consumed |-> 0, ret |-> "none"]
      /\ call' = IF call.op = "reset"
                  THEN [op |-> "update_after_reset",
                        since |-> RSub(current_time, call.at),
                        scale |-> time_scale]
                  ELSE [op |-> "none"]
      /\ UNCHANGED <<clock, fixed_delta_time, time_scale, is_playing>>
      /\ UNCHANGED <<storeVars, physVars, scriptVars>>

\* faulty variant of ShouldReturn: a strict comparison, which loses the step
\* that is due when the accumulator holds exactly one fixed step
ShouldReturnStrict(accumulator, step) == RGt(accumulator, step)

\* what TimeManager.should_fixed_update() returns
ShouldReturn(accumulator, step) == RGe(accumulator, step)

\* TimeManager.should_fixed_update()
ShouldFixedUpdate ==
  LET ret == ShouldReturn(fixed_accumulator, fixed_delta_time)
  IN  /\ fixed_accumulator' =
           IF ret THEN RSub(fixed_accumulator, fixed_delta_time)
           ELSE fixed_accumulator
      /\ frame' = [frame EXCEPT
                     !.consumed = IF ret THEN @ + 1 ELSE @,
                     !.ret = IF ret THEN "true" ELSE "false"]
      /\ call' = IF call.op = "reset"
                  THEN [op |-> "should_after_reset", ret |-> ret]
                  ELSE [op |-> "none"]
      /\ UNCHANGED <<clock, time, delta_time, fixed_delta_time, time_scale,
                     last_frame_time, is_playing>>
      /\ UNCHANGED <<storeVars, physVars, scriptVars>>

\* faulty variant of TimeReset: the accumulator is left as it is
TimeResetKeepsAccumulator ==
  /\ time' = Z(0)
  /\ delta_time' = Z(0)
  /\ last_frame_time' = Now
  /\ fixed_accumulator' = fixed_accumulator
  /\ frame' = [frame EXCEPT !.valid = FALSE]
  /\ call' = [op |-> "reset", at |-> Now, step |-> fixed_delta_time,
              scale |-> time_scale]
  /\ UNCHANGED <<clock, fixed_delta_time, time_scale, is_playing>>
  /\ UNCHANGED <<storeVars, physVars, scriptVars>>

\* TimeManager.reset()
TimeReset ==
  /\ time' = Z(0)
  /\ delta_time' = Z(0)
  /\ last_frame_time' = Now
  /\ fixed_accumulator' = Z(0)
  /\ frame' = [frame EXCEPT !.valid = FALSE]
  /\ call' = [op |-> "reset", at |-> Now, step |-> fixed_delta_time,
              scale |-> time_scale]
  /\ UNCHANGED <<clock, fixed_delta_time, time_scale, is_playing>>
  /\ UNCHANGED <<storeVars, physVars, scriptVars>>

\* a script or the host writes TimeManager.time_scale
SetTimeScale(s) ==
  /\ s # time_scale
  /\ time_scale' = s
  /\ UNCHANGED <<clock, time, delta_time, fixed_delta_time, last_frame_time,
                 fixed_accumulator, is_playing, frame, call>>
  /\ UNCHANGED <<storeVars, physVars, scriptVars>>

\* EngineCore.play()
EnginePlay ==
  /\ ~is_playing
  /\ is_playing' = TRUE
  /\ UNCHANGED <<clock, time, delta_time, fixed_delta_time, time_scale,
                 last_frame_time, fixed_accumulator, frame, call>>
  /\ UNCHANGED <<storeVars, physVars, scriptVars>>

\* EngineCore.stop()
EngineStop ==
  /\ is_playing
  /\ is_playing' = FALSE
  /\ UNCHANGED <<clock, time, delta_time, fixed_delta_time, time_scale,
                 last_frame_time, fixed_accumulator, frame, call>>
  /\ UNCHANGED <<storeVars, physVars, scriptVars>>

\* EngineCore.update(delta_time).  Not playing: returns at once.  Playing:
\* line 101 calls self.time_manager.update(delta_time), but
\* TimeManager.update(self) takes no argument, so the call raises TypeError
\* before anything is added to the accumulator and the frame ends there.
EngineUpdate(d) ==
  /\ call' = [op |-> "engine_update", arg |-> d, playing |-> is_playing,
              accumulator |-> fixed_accumulator, scale |-> time_scale,
              raised |-> IF is_playing THEN "TypeError" ELSE "none"]
  /\ UNCHANGED <<clock, time, delta_time, fixed_delta_time, time_scale,
                 last_frame_time, fixed_accumulator, is_playing, frame>>
  /\ UNCHANGED <<storeVars, physVars, scriptVars>>

TimeNext ==
  \/ \E d \in ClockSteps : Tick(d)
  \/ TimeUpdate
  \/ ShouldFixedUpdate
  \/ TimeReset
  \/ \E s \in TimeScales : SetTimeScale(s)
  \/ EnginePlay
  \/ EngineStop
  \/ \E d \in FrameDeltas : EngineUpdate(d)

\* the scheduler and the engine's frame entry point
SpecTime == EngineInit /\ [][TimeNext]_vars

(***************************************************************************)
(* Actions of the store (core/scene.py, editor/scene_serializer.py)        *)
(***************************************************************************)
\* the handles of the entities the store holds
Live(st) == {st.entities[i][2] : i \in 1..Len(st.entities)}

\* SceneManager.create_entity(name, parent), parent an entity of the store
StoreCreate(name, parent) ==
  /\ Len(ents) < MaxObjects
  /\ StoreBecomes(CreateEntity(Store, name, parent))
  /\ edit' = [op |-> "create", target |-> Len(ents) + 1]
  /\ UNCHANGED <<scriptVars, timeVars, physVars>>

\* SceneManager.destroy_entity(entity), entity an entity of the store
StoreDestroy(h) ==
  /\ StoreBecomes(DestroyEntity(Store, h))
  /\ edit' = [op |-> "destroy", target |-> h, pre |-> Store]
  /\ UNCHANGED <<scriptVars, timeVars, physVars>>

\* SceneManager.clear()
StoreClear ==
  /\ StoreBecomes(Clear(Store))
  /\ edit' = [op |-> "clear"]
  /\ UNCHANGED <<scriptVars, timeVars, physVars>>

\* SceneSerializer.load_scene(scene_manager, path)
StoreLoad(scene) ==
  /\ Len(ents) + SceneSize(scene) <= MaxObjects
  /\ StoreBecomes(LoadScene(Store, scene))
  /\ edit' = [op |-> "load"]
  /\ UNCHANGED <<scriptVars, timeVars, physVars>>

StoreNext ==
  \/ \E name \in Names, parent \in Live(Store) \cup {None} :
       StoreCreate(name, parent)
  \/ \E h \in Live(Store) : StoreDestroy(h)
  \/ StoreClear
  \/ \E scene \in Scenes : StoreLoad(scene)

\* the entity store on its own
SpecStore == EngineInit /\ [][StoreNext]_vars

(***************************************************************************)
(* Actions of the physics step (core/physics.py PhysicsEngine.update) and  *)
(* of the editor and scripts acting on the loaded scene between steps      *)
(***************************************************************************)
Event(ev, a, b) == [ev |-> ev, a |-> a, b |-> b]

\* faulty variant of ClearPairs: the list of the previous step is kept
KeepPairs(pairs) == pairs

\* update, line 32: self.collision_pairs.clear()
ClearPairs(pairs) == <<>>

\* update, lines 32-38: clear the collision list, gather the rigidbodies
PhysBegin ==
  /\ pc = "idle"
  /\ steps < MaxSteps
  /\ collision_pairs' = ClearPairs(collision_pairs)
  /\ rigidbody_entities' = GatherRigidbodies(Store)
  /\ pc' = "integrate"
  /\ li' = 1
  /\ trace' = <<Event("clear", None, None)>>
  /\ pre_step' = ents
  /\ UNCHANGED <<lj, post_int, pre_res, steps, edits>>
  /\ UNCHANGED <<scriptVars, timeVars, storeVars, history>>

\* update, lines 41-42: one iteration of the integration loop
IntegrateStep ==
  /\ pc = "integrate"
  /\ li <= Len(rigidbody_entities)
  /\ ents' = Integrate(ents, rigidbody_entities[li], fixed_delta_time)
  /\ li' = li + 1
  /\ history' = [history EXCEPT !.integrated[rigidbody_entities[li]] = @ + 1]
  /\ trace' = Append(trace, Event("integrate", rigidbody_entities[li], None))
  /\ UNCHANGED <<entities, root_entities, next_entity_id, edit>>
  /\ UNCHANGED <<collision_pairs, rigidbody_entities, pc, lj, pre_step,
                 post_int, pre_res, steps, edits>>
  /\ UNCHANGED <<scriptVars, timeVars>>

\* update, line 45: the integration loop is over, _detect_collisions starts
IntegrateDone ==
  /\ pc = "integrate"
  /\ li > Len(rigidbody_entities)
  /\ pc' = "detect"
  /\ li' = FirstPair(Len(rigidbody_entities))[1]
  /\ lj' = FirstPair(Len(rigidbody_entities))[2]
  /\ post_int' = ents
  /\ UNCHANGED <<collision_pairs, rigidbody_entities, trace, pre_step,
                 pre_res, steps, edits>>
  /\ UNCHANGED <<scriptVars, timeVars, storeVars, history>>

\* what one iteration of the loops of _detect_collisions adds to the list
DetectPair(heap, a, b) ==
  IF ~HasComponent(heap, a, "collider") \/ ~HasComponent(heap, b, "collider")
  THEN NoCollision
  ELSE CheckCollision(heap, a, b)

\* _detect_collisions, lines 81-89: one iteration for the pair (li, lj)
DetectStep ==
  LET a == rigidbody_entities[li]
      b == rigidbody_entities[lj]
      next == NextPair(li, lj, Len(rigidbody_entities))
  IN  /\ pc = "detect"
      /\ lj <= Len(rigidbody_entities)
      /\ collision_pairs' = collision_pairs \o DetectPair(ents, a, b)
      /\ li' = next[1]
      /\ lj' = next[2]
      /\ trace' = Append(trace, Event("test", a, b))
      /\ UNCHANGED <<rigidbody_entities, pc, pre_step, post_int, pre_res,
                     steps, edits>>
      /\ UNCHANGED <<scriptVars, timeVars, storeVars, history>>

\* update, line 48: _detect_collisions returned, the resolution loop starts
DetectDone ==
  /\ pc = "detect"
  /\ lj > Len(rigidbody_entities)
  /\ pc' = "resolve"
  /\ li' = 1
  /\ UNCHANGED <<collision_pairs, rigidbody_entities, lj, trace, pre_step,
                 post_int, pre_res, steps, edits>>
  /\ UNCHANGED <<scriptVars, timeVars, storeVars, history>>

\* update, lines 48-49: one iteration of the resolution loop
ResolveStep ==
  /\ pc = "resolve"
  /\ li <= Len(collision_pairs)
  /\ ents' = ResolveCollision(ents, collision_pairs[li])
  /\ li' = li + 1
  /\ pre_res' = ents
  /\ history' = [history EXCEPT
                   !.hit = @ \cup {collision_pairs[li].entity_a,
                                   collision_pairs[li].entity_b}]
  /\ trace' = Append(trace, Event("resolve", collision_pairs[li].entity_a,
                                  collision_pairs[li].entity_b))
  /\ UNCHANGED <<entities, root_entities, next_entity_id, edit>>
  /\ UNCHANGED <<collision_pairs, rigidbody_entities, pc, lj, pre_step,
                 post_int, steps, edits>>
  /\ UNCHANGED <<scriptVars, timeVars>>

\* update returns
PhysEnd ==
  /\ pc = "resolve"
  /\ li > Len(collision_pairs)
  /\ pc' = "idle"
  /\ steps' = steps + 1
  /\ trace' = Append(trace, Event("return", None, None))
  /\ UNCHANGED <<collision_pairs, rigidbody_entities, li, lj, pre_step,
                 post_int, pre_res, edits>>
  /\ UNCHANGED <<scriptVars, timeVars, storeVars, history>>

\* HierarchyPanel._delete_entity: destroy_entity(entity), between steps
SceneDestroy(h) ==
  /\ pc = "idle"
  /\ edits < MaxEdits
  /\ StoreBecomes(DestroyEntity(Store, h))
  /\ edit' = [op |-> "destroy", target |-> h, pre |-> Store,
              contacts |-> {collision_pairs[i].entity_a :
                              i \in 1..Len(collision_pairs)}
                           \cup {collision_pairs[i].entity_b :
                                   i \in 1..Len(collision_pairs)}]
  /\ edits' = edits + 1
  /\ UNCHANGED <<collision_pairs, rigidbody_entities, pc, li, lj, trace,
                 pre_step, post_int, pre_res, steps>>
  /\ UNCHANGED <<scriptVars, timeVars, history>>

\* HierarchyPanel._toggle_active(entity), between steps
ToggleActive(h) ==
  /\ pc = "idle"
  /\ edits < MaxEdits
  /\ ents' = [ents EXCEPT ![h].active = ~@]
  /\ edit' = [op |-> "toggle", target |-> h]
  /\ edits' = edits + 1
  /\ UNCHANGED <<entities, root_entities, next_entity_id>>
  /\ UNCHANGED <<collision_pairs, rigidbody_entities, pc, li, lj, trace,
                 pre_step, post_int, pre_res, steps>>
  /\ UNCHANGED <<scriptVars, timeVars, history>>

Next ==
  \/ PhysBegin
  \/ IntegrateStep
  \/ IntegrateDone
  \/ DetectStep
  \/ DetectDone
  \/ ResolveStep
  \/ PhysEnd
  \/ \E h \in Live(Store) : SceneDestroy(h)
  \/ \E h \in Live(Store) : ToggleActive(h)

\* the runtime player: a loaded scene, physics steps, edits between steps
Spec == PlayerInit /\ [][Next]_vars

(***************************************************************************)
(* The detector and the resolver called directly on a loaded scene, as a   *)
(* unit test of PhysicsEngine does                                         *)
(***************************************************************************)
\* _detect_collisions(entities): what the whole call appends to the list
RECURSIVE DetectFrom(_, _, _, _)
DetectFrom(heap, list, i, j) ==
  IF j > Len(list) THEN <<>>
  ELSE DetectPair(heap, list[i], list[j])
       \o DetectFrom(heap, list, NextPair(i, j, Len(list))[1],
                     NextPair(i, j, Len(list))[2])

DetectCollisions(heap, list) ==
  DetectFrom(heap, list, FirstPair(Len(list))[1], FirstPair(Len(list))[2])

Reverse(list) == [i \in 1..Len(list) |-> list[Len(list) + 1 - i]]

\* the entity lists a caller hands to _detect_collisions: the entities of
\* the store in enumeration order, or the same entities the other way round
DetectorInputs == {DictValues(entities), Reverse(DictValues(entities))}

\* a scene of the unit tests is loaded into a fresh engine
UnitInit ==
  /\ TimeInit
  /\ PhysInit
  /\ ScriptsInit
  /\ \E scene \in PairScenes \cup {SceneStatic, SceneBalls, SceneScenery} :
       StoreIs(LoadScene(EmptyStore, scene))
  /\ history = NewHistory(ents)
  /\ edit = [op |-> "none"]
  /\ is_playing = FALSE

\* engine._detect_collisions(list), before any contact is resolved
UnitDetect(list) ==
  /\ pc = "idle"
  /\ li <= 1
  /\ Len(history.detect_lists) < MaxCalls
  /\ collision_pairs' = collision_pairs \o DetectCollisions(ents, list)
  /\ rigidbody_entities' = list
  /\ li' = 1
  /\ trace' = Append(trace, Event("detect", None, None))
  /\ history' = [history EXCEPT !.detect_lists = Append(@, list),
                                !.detect_before = collision_pairs]
  /\ UNCHANGED <<pc, lj, pre_step, post_int, pre_res, steps, edits>>
  /\ UNCHANGED <<scriptVars, timeVars, storeVars>>

\* for collision in engine.collision_pairs: engine._resolve_collision(collision)
\* (one iteration)
UnitResolve ==
  /\ pc = "idle"
  /\ li >= 1
  /\ li <= Len(collision_pairs)
  /\ ents' = ResolveCollision(ents, collision_pairs[li])
  /\ li' = li + 1
  /\ pre_res' = ents
  /\ trace' = Append(trace, Event("resolve", collision_pairs[li].entity_a,
                                  collision_pairs[li].entity_b))
  /\ history' = [history EXCEPT
                   !.hit = @ \cup {collision_pairs[li].entity_a,
                                   collision_pairs[li].entity_b}]
  /\ UNCHANGED <<entities, root_entities, next_entity_id, edit>>
  /\ UNCHANGED <<collision_pairs, rigidbody_entities, pc, lj, pre_step,
                 post_int, steps, edits>>
  /\ UNCHANGED <<scriptVars, timeVars>>

UnitNext ==
  \/ \E list \in DetectorInputs : UnitDetect(list)
  \/ UnitResolve

(***************************************************************************)
(* core/scripting.py: ScriptManager and the script instances of a scene    *)
(***************************************************************************)
\* a ScriptBehavior instance: api.entity, enabled, and how often each of its
\* callbacks has run; late counts the update and fixed_update calls made
\* while its entity was out of the store
NewScript(h) ==
  [entity |-> h, enabled |-> TRUE, updates |-> 0, fixed_updates |-> 0,
   on_destroy |-> 0, late |-> 0]

\* every instance the manager holds, and every instance there has been
HeldScripts ==
  UNION {{script_instances[i][2][k] : k \in 1..Len(script_instances[i][2])} :
           i \in 1..Len(script_instances)}
AllScripts == HeldScripts \cup {script_removed[k] : k \in 1..Len(script_removed)}
RECURSIVE HeldCount(_)
HeldCount(instances) ==
  IF instances = <<>> THEN 0
  ELSE Len(Head(instances)[2]) + HeldCount(Tail(instances))
ScriptCount == Len(script_removed) + HeldCount(script_instances)

\* ScriptManager.create_script_instance(entity, script_path), the script
\* file holding a ScriptBehavior subclass
ScriptCreate(h) ==
  LET id == ents[h].id
      list == IF DictHas(script_instances, id)
              THEN DictGet(script_instances, id) ELSE <<>>
  IN  /\ ScriptCount < MaxScripts
      /\ script_instances' =
           DictSet(script_instances, id, Append(list, NewScript(h)))
      /\ UNCHANGED script_removed
      /\ UNCHANGED <<timeVars, storeVars, physVars>>

\* the loops of update_scripts and fixed_update_scripts: the callback of
\* every enabled instance runs once
RunScripts(instances, method, live) ==
  [i \in 1..Len(instances) |->
     <<instances[i][1],
       [k \in 1..Len(instances[i][2]) |->
          LET script == instances[i][2][k]
              late == IF script.entity \in live THEN 0 ELSE 1
          IN  IF ~script.enabled THEN script
              ELSE IF method = "update"
                   THEN [script EXCEPT !.updates = @ + 1, !.late = @ + late]
                   ELSE [script EXCEPT !.fixed_updates = @ + 1,
                                       !.late = @ + late]]>>]

\* ScriptManager.update_scripts(delta_time), once per frame
ScriptUpdate ==
  /\ steps < MaxSteps
  /\ script_instances' = RunScripts(script_instances, "update", Live(Store))
  /\ steps' = steps + 1
  /\ UNCHANGED script_removed
  /\ UNCHANGED <<collision_pairs, rigidbody_entities, pc, li, lj, trace,
                 pre_step, post_int, pre_res, history, edits>>
  /\ UNCHANGED <<timeVars, storeVars>>

\* ScriptManager.fixed_update_scripts(delta_time), once per fixed step
ScriptFixedUpdate ==
  /\ steps < MaxSteps
  /\ script_instances' =
       RunScripts(script_instances, "fixed_update", Live(Store))
  /\ steps' = steps + 1
  /\ UNCHANGED script_removed
  /\ UNCHANGED <<collision_pairs, rigidbody_entities, pc, li, lj, trace,
                 pre_step, post_int, pre_res, history, edits>>
  /\ UNCHANGED <<timeVars, storeVars>>

\* ScriptManager.remove_entity_scripts(entity_id): on_destroy on every
\* instance of the id, then the entry is deleted
ScriptRemove(id) ==
  /\ DictHas(script_instances, id)
  /\ script_removed' =
       script_removed
       \o [k \in 1..Len(DictGet(script_instances, id)) |->
             [DictGet(script_instances, id)[k] EXCEPT !.on_destroy = @ + 1]]
  /\ script_instances' = DictDel(script_instances, id)
  /\ UNCHANGED <<timeVars, storeVars, physVars>>

\* SceneManager.destroy_entity(entity), called directly or through
\* ScriptAPI.destroy(entity): the store alone is changed
ScriptDestroy(h) ==
  /\ edits < MaxEdits
  /\ StoreBecomes(DestroyEntity(Store, h))
  /\ edit' = [op |-> "destroy", target |-> h, pre |-> Store]
  /\ edits' = edits + 1
  /\ UNCHANGED <<collision_pairs, rigidbody_entities, pc, li, lj, trace,
                 pre_step, post_int, pre_res, history, steps>>
  /\ UNCHANGED <<timeVars, scriptVars>>

ScriptNext ==
  \/ \E h \in Live(Store) : ScriptCreate(h)
  \/ ScriptUpdate
  \/ ScriptFixedUpdate
  \/ \E i \in 1..Len(script_instances) : ScriptRemove(script_instances[i][1])
  \/ \E h \in Live(Store) : ScriptDestroy(h)

\* a loaded scene with scripts
ScriptedInit ==
  /\ TimeInit
  /\ PhysInit
  /\ ScriptsInit
  /\ \E scene \in {SceneHeadOn, SceneTree} :
       StoreIs(LoadScene(EmptyStore, scene))
  /\ history = NewHistory(ents)
  /\ edit = [op |-> "none"]
  /\ is_playing = TRUE

SpecScript == ScriptedInit /\ [][ScriptNext]_vars

(***************************************************************************)
(* The editor: a loaded scene is edited, saved and loaded back             *)
(***************************************************************************)
\* HierarchyPanel._on_add_entity / create_entity(name, parent)
FileCreate(name, parent) ==
  /\ edits < MaxEdits
  /\ StoreBecomes(CreateEntity(Store, name, parent))
  /\ edit' = [op |-> "create", target |-> Len(ents) + 1]
  /\ edits' = edits + 1
  /\ UNCHANGED <<collision_pairs, rigidbody_entities, pc, li, lj, trace,
                 pre_step, post_int, pre_res, steps>>
  /\ UNCHANGED <<scriptVars, timeVars, history>>

\* HierarchyPanel._delete_entity
FileDestroy(h) ==
  /\ edits < MaxEdits
  /\ StoreBecomes(DestroyEntity(Store, h))
  /\ edit' = [op |-> "destroy", target |-> h, pre |-> Store]
  /\ edits' = edits + 1
  /\ UNCHANGED <<collision_pairs, rigidbody_entities, pc, li, lj, trace,
                 pre_step, post_int, pre_res, steps>>
  /\ UNCHANGED <<scriptVars, timeVars, history>>

\* HierarchyPanel._toggle_active
FileToggle(h) ==
  /\ edits < MaxEdits
  /\ ents' = [ents EXCEPT ![h].active = ~@]
  /\ edit' = [op |-> "toggle", target |-> h]
  /\ edits' = edits + 1
  /\ UNCHANGED <<entities, root_entities, next_entity_id>>
  /\ UNCHANGED <<collision_pairs, rigidbody_entities, pc, li, lj, trace,
                 pre_step, post_int, pre_res, steps>>
  /\ UNCHANGED <<scriptVars, timeVars, history>>

\* MainWindow._on_save_scene, then _on_load_scene of the file just written
FileSaveLoad ==
  /\ edit.op # "roundtrip"
  /\ StoreBecomes(LoadScene(Store, SaveScene(Store)))
  /\ edit' = [op |-> "roundtrip", pre |-> Store, file |-> SaveScene(Store)]
  /\ UNCHANGED <<collision_pairs, rigidbody_entities, pc, li, lj, trace,
                 pre_step, post_int, pre_res, steps, edits>>
  /\ UNCHANGED <<scriptVars, timeVars, history>>

FileNext ==
  \/ \E name \in Names, parent \in Live(Store) \cup {None} :
       FileCreate(name, parent)
  \/ \E h \in Live(Store) : FileDestroy(h)
  \/ \E h \in Live(Store) : FileToggle(h)
  \/ FileSaveLoad

\* MainWindow: the engine initialized, a scene file loaded, not playing
FileInit ==
  /\ TimeInit
  /\ PhysInit
  /\ ScriptsInit
  /\ \E scene \in Scenes \cup TriggerScenes :
       StoreIs(LoadScene(EmptyStore, scene))
  /\ history = NewHistory(ents)
  /\ edit = [op |-> "none"]
  /\ is_playing = FALSE

\* a scene in the editor: loaded, edited, saved and loaded back
SpecFile == FileInit /\ [][FileNext]_vars

\* PhysicsEngine.raycast: "TODO: Implement raycasting", return None.  The
\* result is an optional: <<>> for None.
Raycast(heap, origin, direction, max_distance) == <<>>

\* the rays the model casts: origins, unit directions, maximal distances
RayOrigins == {V3(Z(-5), Z(0), Z(0)), V3(Z(1), Z(10), Z(2)), V3(Z(0), Z(0), Z(0))}
RayDirections == {V3(Z(1), Z(0), Z(0)), V3(Z(0), Z(-1), Z(0))}
RayDistances == {Z(1), Z(1000)}

\* engine.raycast(origin, direction, max_distance) on the loaded scene
UnitRaycast(origin, direction, max_distance) ==
  /\ pc = "idle"
  /\ ~history.ray.cast
  /\ history' = [history EXCEPT
                   !.ray = [cast |-> TRUE, origin |-> origin,
                            direction |-> direction,
                            max_distance |-> max_distance,
                            result |-> Raycast(ents, origin, direction,
                                               max_distance)]]
  /\ trace' = Append(trace, Event("raycast", None, None))
  /\ UNCHANGED <<collision_pairs, rigidbody_entities, pc, li, lj, pre_step,
                 post_int, pre_res, steps, edits>>
  /\ UNCHANGED <<scriptVars, timeVars, storeVars>>

RayNext ==
  \E origin \in RayOrigins, direction \in RayDirections,
     max_distance \in RayDistances :
       UnitRaycast(origin, direction, max_distance)

\* a ray cast into a loaded scene
SpecRay == UnitInit /\ [][RayNext]_vars

\* the detector and the resolver under unit test
SpecUnit == UnitInit /\ [][UnitNext]_vars

(***************************************************************************)
(* Properties of the scheduler (SpecTime)                                  *)
(***************************************************************************)
\* the frame ghost describes the calls of should_fixed_update() since the
\* last update(): the accumulator started the frame in [0, fixed) and the
\* advance was not negative
FrameInScope ==
  /\ frame.valid
  /\ RGe(frame.start, Z(0))
  /\ RLt(frame.start, fixed_delta_time)
  /\ RGe(frame.added, Z(0))

\* floor(a / fixed) for the accumulator value a the advance produced
StepsDue == RFloor(RDiv(frame.total, fixed_delta_time))

\* C1: after an advance that brings the accumulator (started in [0, fixed))
\* to a, should_fixed_update() returns true exactly floor(a / fixed) times
\* and then false: each true return has taken one fixed step off the
\* accumulator, no call has returned true beyond floor(a / fixed), and once a
\* call has returned false the count is floor(a / fixed) and the accumulator
\* holds a - floor(a / fixed) * fixed, a value in [0, fixed).  With fixed =
\* 0.02 and an advance of 0.05 from 0 that is two steps and 0.01 left.
C1_StepCount ==
  FrameInScope =>
    /\ frame.consumed <= StepsDue
    /\ fixed_accumulator =
         RSub(frame.total, RMul(Z(frame.consumed), fixed_delta_time))
    /\ (frame.ret = "true" => frame.consumed >= 1)
    /\ (frame.ret = "false" =>
          /\ frame.consumed = StepsDue
          /\ RGe(fixed_accumulator, Z(0))
          /\ RLt(fixed_accumulator, fixed_delta_time))

\* C1 happens: an advance of 0.05 from an empty accumulator, two true
\* returns, then a false one with 0.01 left
C1_Witness ==
  /\ FrameInScope
  /\ frame.start = Z(0)
  /\ frame.added = Q(1, 20)
  /\ frame.ret = "false"
  /\ frame.consumed = 2
  /\ fixed_accumulator = Q(1, 100)

\* C8: EngineCore.update(wall_delta) while playing leaves the accumulator
\* increased by exactly wall_delta * time_scale.  The call ghost holds the
\* argument, the accumulator and the time scale at the call; every later
\* operation on the accumulator resets the ghost.
C8_AdvanceAddsFrameDelta ==
  (call.op = "engine_update" /\ call.playing) =>
    fixed_accumulator =
      RAdd(call.accumulator, RMul(call.arg, call.scale))

(***************************************************************************)
(* Properties of the store (SpecStore)                                     *)
(***************************************************************************)
\* an entity and all its descendants, read from the children lists
RECURSIVE SubtreeOf(_, _)
SubtreeOf(st, h) ==
  {h} \cup UNION {SubtreeOf(st, st.ents[h].children[i]) :
                    i \in 1..Len(st.ents[h].children)}

\* C4: when destroy_entity(entity) has returned, the entity and every
\* descendant it had are out of the id table (lookup by id yields None) and
\* out of every enumeration of the store, the entity is out of the roots and
\* out of its former parent's children, and every entity outside the subtree
\* is as it was (the former parent has lost that one child, nothing else).
C4_DestroyRemovesSubtree ==
  edit.op = "destroy" =>
    LET pre    == edit.pre
        target == edit.target
        gone   == SubtreeOf(pre, target)
        parent == pre.ents[target].parent
    IN  /\ \A d \in gone :
             /\ GetEntity(Store, pre.ents[d].id) = None
             /\ d \notin Live(Store)
             /\ ~InSeq(d, GetAllEntities(Store))
             /\ ~InSeq(d, root_entities)
        /\ parent # None => ~InSeq(target, ents[parent].children)
        /\ \A h \in Live(Store), d \in gone : ~InSeq(d, ents[h].children)
        /\ entities = SelectSeq(pre.entities, LAMBDA kv : kv[2] \notin gone)
        /\ root_entities = SelectSeq(pre.root_entities, LAMBDA h : h # target)
        /\ next_entity_id = pre.next_entity_id
        /\ \A h \in Live(Store) :
             ents[h] = IF h = parent
                       THEN [pre.ents[h] EXCEPT
                               !.children = RemoveFirst(@, target)]
                       ELSE pre.ents[h]

\* C4 happens: the destroyed entity had a parent, a child and a grandchild,
\* and the parent is still in the store
C4_Witness ==
  /\ edit.op = "destroy"
  /\ Cardinality(SubtreeOf(edit.pre, edit.target)) >= 3
  /\ edit.pre.ents[edit.target].parent # None
  /\ edit.pre.ents[edit.target].parent \in Live(Store)
  /\ GetEntity(Store, edit.pre.ents[edit.target].id) = None

\* C6: an id is never handed out twice over the life of the store, whatever
\* create, destroy, clear and scene load have happened: the entity objects,
\* in the order they were constructed, carry strictly increasing ids.
C6_IdsNeverReused ==
  \A h1, h2 \in 1..Len(ents) : h1 < h2 => ents[h1].id < ents[h2].id

(***************************************************************************)
(* Properties of the physics step (Spec)                                   *)
(***************************************************************************)
\* the position of a phase in the order of PhysicsEngine.update
Rank(ev) ==
  CASE ev = "clear"     -> 0
    [] ev = "integrate" -> 1
    [] ev = "test"      -> 2
    [] ev = "resolve"   -> 3
    [] ev = "return"    -> 4

EventsOf(ev) == SelectSeq(trace, LAMBDA e : e.ev = ev)

\* the contacts the tests of a trace yield on the positions of heap
RECURSIVE ContactsOf(_, _)
ContactsOf(heap, events) ==
  IF events = <<>> THEN <<>>
  ELSE LET e == Head(events)
       IN  (IF e.ev = "test" THEN DetectPair(heap, e.a, e.b) ELSE <<>>)
           \o ContactsOf(heap, Tail(events))

\* every pair i < j of the step's rigidbody list
AllPairs ==
  {<<rigidbody_entities[p[1]], rigidbody_entities[p[2]]>> :
     p \in {q \in (1..Len(rigidbody_entities)) \X (1..Len(rigidbody_entities)) :
              q[1] < q[2]}}

\* the entities a step has named so far: in its rigidbody list, in an
\* integration, a collision test or a resolution, or in its collision list
Touched ==
  {rigidbody_entities[i] : i \in 1..Len(rigidbody_entities)}
  \cup {trace[i].a : i \in 1..Len(trace)}
  \cup {trace[i].b : i \in 1..Len(trace)}
  \cup {collision_pairs[i].entity_a : i \in 1..Len(collision_pairs)}
  \cup {collision_pairs[i].entity_b : i \in 1..Len(collision_pairs)}

\* C2: one call of PhysicsEngine.update first clears the collision list,
\* then integrates every rigidbody entity once, then tests every pair, then
\* resolves the contacts in list order.  The list is empty during
\* integration; during detection no position has changed since integration
\* ended; the list always equals the contacts of the pairs tested so far
\* computed on the post-integration positions, so after the call it holds
\* that step's contacts only and the resolver was handed nothing else.
C2_PhaseOrder ==
  /\ trace # <<>> => trace[1].ev = "clear"
  /\ \A i, k \in 1..Len(trace) :
       i < k => /\ Rank(trace[i].ev) <= Rank(trace[k].ev)
                /\ trace[k].ev # "clear"
  /\ pc = "integrate" => collision_pairs = <<>>
  /\ (pc # "integrate" /\ trace # <<>>) =>
       [i \in 1..Len(EventsOf("integrate")) |-> EventsOf("integrate")[i].a]
         = rigidbody_entities
  /\ pc = "detect" => ents = post_int
  /\ collision_pairs = ContactsOf(post_int, trace)
  /\ ((pc = "resolve" \/ pc = "idle") /\ trace # <<>>) =>
       /\ {<<EventsOf("test")[i].a, EventsOf("test")[i].b>> :
              i \in 1..Len(EventsOf("test"))} = AllPairs
       /\ Len(EventsOf("test")) = Cardinality(AllPairs)
       /\ Len(EventsOf("resolve")) <= Len(collision_pairs)
       /\ \A i \in 1..Len(EventsOf("resolve")) :
            /\ EventsOf("resolve")[i].a = collision_pairs[i].entity_a
            /\ EventsOf("resolve")[i].b = collision_pairs[i].entity_b
  /\ (pc = "idle" /\ trace # <<>>) =>
       Len(EventsOf("resolve")) = Len(collision_pairs)

\* C2 happens: a second step has returned after resolving two contacts of
\* three integrated bodies, the first step having left contacts behind
C2_Witness ==
  /\ pc = "idle"
  /\ steps = 2
  /\ Len(EventsOf("integrate")) >= 3
  /\ Len(EventsOf("resolve")) >= 2
  /\ trace[Len(trace)].ev = "return"

\* the entity was kinematic when the current (or last) step began
KinematicAtStart(h) ==
  /\ HasComponent(pre_step, h, "rigidbody")
  /\ pre_step[h].components["rigidbody"].is_kinematic

\* C3: a step changes neither the position, rotation and scale nor the
\* velocity and angular velocity of a body that is kinematic, in integration
\* and in resolution alike, although contacts naming it are still produced.
C3_KinematicNeverMoved ==
  \A h \in 1..Len(pre_step) :
    KinematicAtStart(h) =>
      /\ ents[h].transform = pre_step[h].transform
      /\ ents[h].components["rigidbody"] = pre_step[h].components["rigidbody"]

\* C3 happens: a step has returned after resolving a contact between a
\* kinematic body under gravity and a dynamic body, which it has moved
C3_Witness ==
  /\ pc = "idle"
  /\ steps >= 1
  /\ \E i \in 1..Len(collision_pairs) :
       LET a == collision_pairs[i].entity_a
           b == collision_pairs[i].entity_b
       IN  /\ KinematicAtStart(a)
           /\ pre_step[a].components["rigidbody"].use_gravity
           /\ ~KinematicAtStart(b)
           /\ ents[b].transform # pre_step[b].transform
           /\ ents[a].transform = pre_step[a].transform

\* C5: while a step runs, every entity it names (in its rigidbody list, in
\* an integration, a collision test, a resolution or a CollisionInfo of its
\* list) is held by the store; if the last operation on the scene was
\* destroy(entity), none of them is that entity or one of its descendants.
C5_NoStepNamesDestroyed ==
  pc # "idle" =>
    \A h \in Touched \ {None} :
      /\ h \in Live(Store)
      /\ edit.op = "destroy" => h \notin SubtreeOf(edit.pre, edit.target)

\* C5 happens: an entity with a rigidbody that was named by a contact was
\* destroyed, and the next step has integrated and resolved the others
C5_Witness ==
  /\ pc = "resolve"
  /\ li > 1
  /\ edit.op = "destroy"
  /\ edit.target \in edit.contacts
  /\ HasComponent(edit.pre.ents, edit.target, "rigidbody")
  /\ edit.target \notin Touched

JustResolved == pc = "resolve" /\ li > 1
Resolved == collision_pairs[li - 1]
BodyBefore(h) == pre_res[h].components["rigidbody"]
VelocityAfter(h) == ents[h].components["rigidbody"].velocity

\* the relative velocity of b with respect to a along the contact normal
NormalVelocityBefore ==
  VDot(VSub(BodyBefore(Resolved.entity_b).velocity,
            BodyBefore(Resolved.entity_a).velocity), Resolved.normal)
NormalVelocityAfter ==
  VDot(VSub(VelocityAfter(Resolved.entity_b),
            VelocityAfter(Resolved.entity_a)), Resolved.normal)

\* -(1 + 0.5) * vn / (1 / mass_a + 1 / mass_b)
ExpectedImpulse ==
  RDiv(RMul(Q(-3, 2), NormalVelocityBefore),
       RAdd(RInv(BodyBefore(Resolved.entity_a).mass),
            RInv(BodyBefore(Resolved.entity_b).mass)))

\* C9: resolving a contact of two non-kinematic bodies whose relative
\* velocity along the normal is vn (b minus a): if vn > 0 both velocities
\* stay as they were; otherwise a loses and b gains the impulse
\* -(1.5) * vn / (1 / mass_a + 1 / mass_b) along the normal, each divided by
\* its own mass, and the relative normal velocity afterwards is -0.5 * vn.
\* Unit masses closing at +2 and -2: impulse 3, velocities -1 and +1.
C9_ImpulseResolution ==
  JustResolved =>
    LET a  == Resolved.entity_a
        b  == Resolved.entity_b
        n  == Resolved.normal
        ra == BodyBefore(a)
        rb == BodyBefore(b)
    IN  (~ra.is_kinematic /\ ~rb.is_kinematic) =>
          IF RSign(NormalVelocityBefore) > 0
          THEN /\ VelocityAfter(a) = ra.velocity
               /\ VelocityAfter(b) = rb.velocity
          ELSE /\ VelocityAfter(a) =
                    VSub(ra.velocity,
                         VScale(n, RDiv(ExpectedImpulse, ra.mass)))
               /\ VelocityAfter(b) =
                    VAdd(rb.velocity,
                         VScale(n, RDiv(ExpectedImpulse, rb.mass)))
               /\ NormalVelocityAfter =
                    RMul(Q(-1, 2), NormalVelocityBefore)

\* C9 happens: two unit masses closing head-on at +2 and -2 along the normal
\* (1, 0, 0) have been resolved with impulse 3 to -1 and +1
C9_Witness ==
  /\ JustResolved
  /\ BodyBefore(Resolved.entity_a).mass = Z(1)
  /\ BodyBefore(Resolved.entity_b).mass = Z(1)
  /\ ~BodyBefore(Resolved.entity_a).is_kinematic
  /\ ~BodyBefore(Resolved.entity_b).is_kinematic
  /\ Resolved.normal = V3(Z(1), Z(0), Z(0))
  /\ BodyBefore(Resolved.entity_a).velocity = V3(Z(2), Z(0), Z(0))
  /\ BodyBefore(Resolved.entity_b).velocity = V3(Z(-2), Z(0), Z(0))
  /\ ExpectedImpulse = Z(3)
  /\ VelocityAfter(Resolved.entity_a) = V3(Z(-1), Z(0), Z(0))
  /\ VelocityAfter(Resolved.entity_b) = V3(Z(1), Z(0), Z(0))

\* half the penetration along the normal
HalfCorrection == VScale(Resolved.normal, RMul(Q(1, 2), Resolved.penetration))

\* how far the resolution has moved b away from a along the normal
SeparationGained ==
  VDot(VSub(VSub(ents[Resolved.entity_b].transform.position,
                 ents[Resolved.entity_a].transform.position),
            VSub(pre_res[Resolved.entity_b].transform.position,
                 pre_res[Resolved.entity_a].transform.position)),
       Resolved.normal)

\* C10: resolving a contact moves each non-kinematic body by half the
\* penetration along the normal, a against it and b along it, whatever the
\* masses and whether or not the bodies are already separating; a kinematic
\* side stays where it is, so with one kinematic side the pair gains only
\* half the penetration, with none the whole, with two nothing.
C10_PositionCorrection ==
  JustResolved =>
    LET a  == Resolved.entity_a
        b  == Resolved.entity_b
        ka == BodyBefore(a).is_kinematic
        kb == BodyBefore(b).is_kinematic
    IN  /\ ents[a].transform.position =
             IF ka THEN pre_res[a].transform.position
             ELSE VSub(pre_res[a].transform.position, HalfCorrection)
        /\ ents[b].transform.position =
             IF kb THEN pre_res[b].transform.position
             ELSE VAdd(pre_res[b].transform.position, HalfCorrection)
        /\ SeparationGained =
             IF ka /\ kb THEN Z(0)
             ELSE IF ka \/ kb THEN RMul(Q(1, 2), Resolved.penetration)
             ELSE Resolved.penetration

\* C10 happens: a dynamic body already moving away from a kinematic one has
\* been pushed by half the penetration and the kinematic one has stayed
C10_Witness ==
  /\ JustResolved
  /\ BodyBefore(Resolved.entity_b).is_kinematic
  /\ ~BodyBefore(Resolved.entity_a).is_kinematic
  /\ RSign(NormalVelocityBefore) > 0
  /\ RSign(Resolved.penetration) > 0
  /\ ents[Resolved.entity_b].transform = pre_res[Resolved.entity_b].transform
  /\ ents[Resolved.entity_a].transform.position =
       VSub(pre_res[Resolved.entity_a].transform.position, HalfCorrection)
  /\ SeparationGained = RMul(Q(1, 2), Resolved.penetration)

(***************************************************************************)
(* Properties of the detector and the resolver under unit test (SpecUnit)  *)
(***************************************************************************)
\* the last thing that happened was a call of _resolve_collision
LastCallResolved == trace # <<>> /\ trace[Len(trace)].ev = "resolve"

\* a contact the resolver must leave alone: a side without rigidbody, or
\* two kinematic bodies
Unresolvable(heap, a, b) ==
  \/ ~HasComponent(heap, a, "rigidbody")
  \/ ~HasComponent(heap, b, "rigidbody")
  \/ /\ heap[a].components["rigidbody"].is_kinematic
     /\ heap[b].components["rigidbody"].is_kinematic

\* C11: _resolve_collision on a contact with a side that has no rigidbody,
\* or with two kinematic bodies, returns without changing anything (no
\* position, no velocity, of either entity or any other), and the loop over
\* the list goes on: the calls made so far are the contacts of the list in
\* list order, one call per contact, whatever came before them.
C11_SilentNoOp ==
  /\ (LastCallResolved /\
      Unresolvable(pre_res, trace[Len(trace)].a, trace[Len(trace)].b)) =>
       ents = pre_res
  /\ Len(EventsOf("resolve")) = (IF li = 0 THEN 0 ELSE li - 1)
  /\ \A i \in 1..Len(EventsOf("resolve")) :
       /\ i <= Len(collision_pairs)
       /\ EventsOf("resolve")[i].a = collision_pairs[i].entity_a
       /\ EventsOf("resolve")[i].b = collision_pairs[i].entity_b

\* C11 happens: after a contact with static scenery and a contact of two
\* kinematic bodies were passed over, a third contact has been resolved and
\* has moved a body
C11_Witness ==
  /\ LastCallResolved
  /\ ents # pre_res
  /\ \E i \in 1..(Len(EventsOf("resolve")) - 1) :
       ~HasComponent(ents, EventsOf("resolve")[i].a, "rigidbody")
  /\ \E i \in 1..(Len(EventsOf("resolve")) - 1) :
       /\ HasComponent(ents, EventsOf("resolve")[i].a, "rigidbody")
       /\ HasComponent(ents, EventsOf("resolve")[i].b, "rigidbody")
       /\ Unresolvable(ents, EventsOf("resolve")[i].a,
                       EventsOf("resolve")[i].b)

\* the detector has been called and no contact has been resolved since, so
\* ents is the heap the last call of the detector saw
JustDetected == history.detect_lists # <<>> /\ li = 1

\* the argument of the last call of the detector, the pairs it visited
\* (first entity before second in the list) and the contacts it appended
LastList == history.detect_lists[Len(history.detect_lists)]
LastPairs ==
  {<<LastList[p[1]], LastList[p[2]]>> :
     p \in {q \in (1..Len(LastList)) \X (1..Len(LastList)) : q[1] < q[2]}}
LastContacts ==
  SubSeq(collision_pairs, Len(history.detect_before) + 1, Len(collision_pairs))
ContactsOfPair(a, b) ==
  SelectSeq(LastContacts, LAMBDA c : c.entity_a = a /\ c.entity_b = b)

ShapeOf(h) ==
  IF HasComponent(ents, h, "collider")
  THEN ents[h].components["collider"].collider_type
  ELSE "none"

\* the overlap of two boxes on axis k: (halfA + halfB) - |centerA - centerB|
\* with full extents size * scale
BoxOverlap(a, b, k) ==
  RSub(RAdd(RDiv(RMul(ents[a].components["collider"].size[k],
                      ents[a].transform.scale[k]), Z(2)),
            RDiv(RMul(ents[b].components["collider"].size[k],
                      ents[b].transform.scale[k]), Z(2))),
       RAbs(RSub(ents[a].transform.position[k],
                 ents[b].transform.position[k])))

\* the first axis (x before y before z) whose overlap is the smallest
MinOverlapAxis(a, b) ==
  CHOOSE k \in 1..3 :
    /\ \A m \in 1..3 : RLe(BoxOverlap(a, b, k), BoxOverlap(a, b, m))
    /\ \A m \in 1..(k - 1) : RLt(BoxOverlap(a, b, k), BoxOverlap(a, b, m))

\* C12: for two boxes a, b the detector visits, a CollisionInfo is produced
\* if and only if the overlap (halfA + halfB) - |centerA - centerB| is
\* strictly positive on all three axes; then there is exactly one, its
\* penetration is the smallest overlap, its normal is +1 or -1 on the first
\* axis of smallest overlap (x before y before z) and 0 on the others, and
\* its point is the midpoint of the centers.
C12_BoxBox ==
  JustDetected =>
    \A p \in LastPairs :
      LET a == p[1]
          b == p[2]
          found == ContactsOfPair(a, b)
          overlapping == \A k \in 1..3 : RSign(BoxOverlap(a, b, k)) > 0
          axis == MinOverlapAxis(a, b)
      IN  (ShapeOf(a) = "box" /\ ShapeOf(b) = "box") =>
            /\ Len(found) = (IF overlapping THEN 1 ELSE 0)
            /\ overlapping =>
                 /\ found[1].penetration = BoxOverlap(a, b, axis)
                 /\ found[1].normal[axis] \in {Z(1), Z(-1)}
                 /\ \A k \in 1..3 \ {axis} : found[1].normal[k] = Z(0)
                 /\ found[1].point =
                      VScale(VAdd(ents[a].transform.position,
                                  ents[b].transform.position), Q(1, 2))

\* C12 happens: unit boxes at (0,0,0) and (0.5,0,0) have been tested: one
\* contact, normal along x, penetration 0.5
C12_Witness ==
  /\ JustDetected
  /\ Len(ents) = 2
  /\ ShapeOf(1) = "box" /\ ShapeOf(2) = "box"
  /\ ents[1].transform = TransformDefault
  /\ ents[2].transform =
       [TransformDefault EXCEPT !.position = V3(Q(1, 2), Z(0), Z(0))]
  /\ LastList = <<1, 2>>
  /\ Len(LastContacts) = 1
  /\ LastContacts[1].normal = V3(Z(1), Z(0), Z(0))
  /\ LastContacts[1].penetration = Q(1, 2)

\* the radius of a sphere: its radius field times the largest scale component
ScaledRadius(h) ==
  LET sc == ents[h].transform.scale
      largest == CHOOSE m \in {sc[1], sc[2], sc[3]} :
                   \A k \in 1..3 : RGe(m, sc[k])
  IN  RMul(ents[h].components["collider"].radius, largest)

CenterDelta(a, b) == VSub(ents[b].transform.position, ents[a].transform.position)

\* C13: for two spheres a, b the detector visits, with radii scaled by the
\* largest scale component, a CollisionInfo is produced if and only if the
\* distance of the centers is strictly less than the sum of the radii
\* (compared by squares); then there is exactly one, its penetration p is
\* the sum of the radii minus the distance (sum - p >= 0 and (sum - p)^2 =
\* |posB - posA|^2), its normal times the distance is posB - posA, and its
\* point is posA + normal * radiusA.
C13_SphereSphere ==
  JustDetected =>
    \A p \in LastPairs :
      LET a == p[1]
          b == p[2]
          found == ContactsOfPair(a, b)
          sum == RAdd(ScaledRadius(a), ScaledRadius(b))
          delta == CenterDelta(a, b)
          near == RLt(VDot(delta, delta), RMul(sum, sum))
          distance == RSub(sum, found[1].penetration)
      IN  (ShapeOf(a) = "sphere" /\ ShapeOf(b) = "sphere") =>
            /\ Len(found) = (IF near THEN 1 ELSE 0)
            /\ near =>
                 /\ RGe(distance, Z(0))
                 /\ RMul(distance, distance) = VDot(delta, delta)
                 /\ VScale(found[1].normal, distance) = delta
                 /\ found[1].point =
                      VAdd(ents[a].transform.position,
                           VScale(found[1].normal, ScaledRadius(a)))

\* C13 happens: two spheres of radius 1 with centers 1.5 apart have been
\* tested: one contact of penetration 0.5
C13_Witness ==
  /\ JustDetected
  /\ Len(ents) = 2
  /\ ShapeOf(1) = "sphere" /\ ShapeOf(2) = "sphere"
  /\ ScaledRadius(1) = Z(1) /\ ScaledRadius(2) = Z(1)
  /\ VDot(CenterDelta(1, 2), CenterDelta(1, 2)) = Q(9, 4)
  /\ LastList = <<1, 2>>
  /\ Len(LastContacts) = 1
  /\ LastContacts[1].penetration = Q(1, 2)

\* the sphere center lies inside or on the box: on every axis it is no
\* farther from the box center than the half extent
CenterInBox(box, sphere) ==
  \A k \in 1..3 :
    RLe(RAbs(CenterDelta(box, sphere)[k]),
        RDiv(RMul(ents[box].components["collider"].size[k],
                  ents[box].transform.scale[k]), Z(2)))

\* C14: where the distance that would divide the normal is zero, the
\* detector still returns exactly one CollisionInfo, with the fallback
\* normal (0,1,0): for two spheres with the same center its penetration is
\* the sum of the radii; for a sphere whose center is inside or on a box, in
\* either list order, it names the box first and its penetration is the
\* sphere's radius.  (Radii are positive.)
C14_DegenerateGeometry ==
  JustDetected =>
    \A p \in LastPairs :
      LET a == p[1]
          b == p[2]
          found == ContactsOfPair(a, b) \o ContactsOfPair(b, a)
          box == IF ShapeOf(a) = "box" THEN a ELSE b
          sphere == IF ShapeOf(a) = "box" THEN b ELSE a
      IN  /\ (/\ ShapeOf(a) = "sphere" /\ ShapeOf(b) = "sphere"
              /\ CenterDelta(a, b) = Zero3) =>
                /\ Len(found) = 1
                /\ found[1].normal = V3(Z(0), Z(1), Z(0))
                /\ found[1].penetration =
                     RAdd(ScaledRadius(a), ScaledRadius(b))
          /\ (/\ {ShapeOf(a), ShapeOf(b)} = {"box", "sphere"}
              /\ CenterInBox(box, sphere)) =>
                /\ Len(found) = 1
                /\ found[1].entity_a = box
                /\ found[1].entity_b = sphere
                /\ found[1].normal = V3(Z(0), Z(1), Z(0))
                /\ found[1].penetration = ScaledRadius(sphere)

\* C14 happens: a sphere listed before the box that contains its center,
\* below the box center, has been tested
C14_Witness ==
  /\ JustDetected
  /\ Len(ents) = 2
  /\ ShapeOf(LastList[1]) = "sphere"
  /\ ShapeOf(LastList[2]) = "box"
  /\ CenterInBox(LastList[2], LastList[1])
  /\ RSign(CenterDelta(LastList[2], LastList[1])[2]) < 0
  /\ Len(LastContacts) = 1
  /\ LastContacts[1].normal = V3(Z(0), Z(1), Z(0))
  /\ LastContacts[1].penetration = ScaledRadius(LastList[1])

\* the detector has been called on two entities in one order and then, with
\* nothing resolved in between, in the other order
BothOrders ==
  /\ JustDetected
  /\ Len(history.detect_lists) = 2
  /\ Len(history.detect_lists[1]) = 2
  /\ history.detect_lists[2] = Reverse(history.detect_lists[1])
  /\ history.detect_lists[2] # history.detect_lists[1]

\* the contacts of the first of the two calls
FirstContacts == history.detect_before

\* the two entities are boxes whose centers are equal on the axis of the
\* smallest overlap, or spheres with the same center, or a box and a sphere
SameNormalCase(x, y) ==
  \/ /\ ShapeOf(x) = "box" /\ ShapeOf(y) = "box"
     /\ CenterDelta(x, y)[MinOverlapAxis(x, y)] = Z(0)
  \/ /\ ShapeOf(x) = "sphere" /\ ShapeOf(y) = "sphere"
     /\ CenterDelta(x, y) = Zero3
  \/ {ShapeOf(x), ShapeOf(y)} = {"box", "sphere"}

DetectedTwice ==
  /\ JustDetected
  /\ Len(history.detect_lists) = 2
  /\ history.detect_lists[2] = history.detect_lists[1]
  /\ ents = history.start

\* C16: a second run of the detector on an unchanged scene leaves the
\* CollisionInfo list as it was after the first run, nothing added or
\* duplicated
C16_DetectIdempotent ==
  DetectedTwice => collision_pairs = history.detect_before

\* what the code does instead: the second run appends its contacts, equal to
\* those of the first run, after them
C16_SecondRunAppends ==
  DetectedTwice =>
    /\ collision_pairs = history.detect_before \o history.detect_before
    /\ LastContacts = history.detect_before

\* a second run found the contact of the first run again
C16_Witness ==
  /\ DetectedTwice
  /\ Len(history.detect_before) = 1
  /\ Len(collision_pairs) = 2
  /\ collision_pairs[2] = collision_pairs[1]

\* _detect_collisions has returned and no contact of the step is resolved yet
DetectionOver == pc = "resolve" /\ li = 1

\* the unordered pairs of distinct active entities that both carry a collider
\* and whose shapes overlap, at the positions the detector saw
OverlappingPairs ==
  LET active == GetAllEntities(Store)
      n == Len(active)
  IN  {<<active[q[1]], active[q[2]]>> :
         q \in {r \in (1..n) \X (1..n) :
                  /\ r[1] < r[2]
                  /\ HasComponent(ents, active[r[1]], "collider")
                  /\ HasComponent(ents, active[r[2]], "collider")
                  /\ CheckCollision(ents, active[r[1]], active[r[2]])
                       # NoCollision}}

\* the CollisionInfo of the step that name the two entities, in either order
ContactsBetween(a, b) ==
  SelectSeq(collision_pairs,
            LAMBDA c : {c.entity_a, c.entity_b} = {a, b})

\* C17: in every physics step each unordered pair of distinct active
\* entities that both carry a collider and whose shapes overlap yields
\* exactly one CollisionInfo, with or without a rigidbody on either side; no
\* pair is reported twice and no entity is paired with itself
C17_DetectorCoverage ==
  DetectionOver =>
    /\ \A p \in OverlappingPairs : Len(ContactsBetween(p[1], p[2])) = 1
    /\ \A k \in 1..Len(collision_pairs) :
         /\ collision_pairs[k].entity_a # collision_pairs[k].entity_b
         /\ Len(ContactsBetween(collision_pairs[k].entity_a,
                                collision_pairs[k].entity_b)) = 1

\* what the code does: the coverage holds among the entities that also carry
\* a rigidbody, and an overlapping pair with a side without rigidbody yields
\* no CollisionInfo
C17_CoverageAmongBodies ==
  DetectionOver =>
    /\ \A p \in OverlappingPairs :
         Len(ContactsBetween(p[1], p[2])) =
           IF HasComponent(ents, p[1], "rigidbody")
              /\ HasComponent(ents, p[2], "rigidbody")
           THEN 1 ELSE 0
    /\ \A k \in 1..Len(collision_pairs) :
         /\ collision_pairs[k].entity_a # collision_pairs[k].entity_b
         /\ Len(ContactsBetween(collision_pairs[k].entity_a,
                                collision_pairs[k].entity_b)) = 1
         /\ \E p \in OverlappingPairs :
              {p[1], p[2]} = {collision_pairs[k].entity_a,
                              collision_pairs[k].entity_b}

\* a step has found a contact between two bodies and none between a body and
\* the collider-only scenery it overlaps
C17_Witness ==
  /\ DetectionOver
  /\ collision_pairs # <<>>
  /\ \E p \in OverlappingPairs :
       /\ ~HasComponent(ents, p[1], "rigidbody")
       /\ ContactsBetween(p[1], p[2]) = <<>>

\* update as one function of the store at its start: the active bodies in
\* the insertion order of the id table, the heap after the integration loop,
\* the list after _detect_collisions (pairs in index order i < j of the
\* gathered list), the heap after the resolution loop
RECURSIVE IntegrateAll(_, _, _)
IntegrateAll(heap, list, dt) ==
  IF list = <<>> THEN heap
  ELSE IntegrateAll(Integrate(heap, Head(list), dt), Tail(list), dt)

RECURSIVE ResolveAll(_, _)
ResolveAll(heap, pairs) ==
  IF pairs = <<>> THEN heap
  ELSE ResolveAll(ResolveCollision(heap, Head(pairs)), Tail(pairs))

UpdateResult(st, dt) ==
  LET list == SelectSeq(DictValues(st.entities),
                        LAMBDA h : /\ st.ents[h].active
                                   /\ HasComponent(st.ents, h, "rigidbody"))
      integrated == IntegrateAll(st.ents, list, dt)
      pairs == DetectCollisions(integrated, list)
  IN  [ents |-> ResolveAll(integrated, pairs), collision_pairs |-> pairs]

\* the resolution loop of the step is over
StepOver == pc = "resolve" /\ li > Len(collision_pairs)

\* C18: the state after a physics step is a function of the store at the
\* start of the step and of the step size, so two engines that start from
\* equal scenes and take the same steps are in equal states after every
\* step: the transforms and velocities of every entity and the
\* CollisionInfo list, in the same order, are those of the step computed in
\* one piece, pairs enumerated in index order i < j over the store's
\* insertion-ordered enumeration
C18_Determinism ==
  StepOver =>
    LET result == UpdateResult([Store EXCEPT !.ents = pre_step],
                               fixed_delta_time)
    IN  /\ ents = result.ents
        /\ collision_pairs = result.collision_pairs

\* C18 happens: a second step has ended that found two contacts or more and
\* moved a body
C18_Witness ==
  /\ StepOver
  /\ steps = 1
  /\ Len(collision_pairs) >= 2
  /\ ents # pre_step

\* a body that started at rest, without drag and not kinematic, and has
\* been in no contact handed to the resolver
FreeBodies ==
  {h \in 1..Len(ents) :
     /\ HasComponent(history.start, h, "rigidbody")
     /\ ~history.start[h].components["rigidbody"].is_kinematic
     /\ history.start[h].components["rigidbody"].linear_drag = Z(0)
     /\ history.start[h].components["rigidbody"].velocity = Zero3
     /\ h \notin history.hit}

\* the steps that integrated entity h: the steps during which it was active
\* and in the store
StepsTaken(h) == history.integrated[h]

\* C19: a non-kinematic body without drag that starts at rest and takes part
\* in no resolved collision has, after the N steps that integrated it,
\* velocity (0, gravity.y * step * N, 0) if use_gravity is set and velocity 0
\* if it is not; between steps N is the number of steps run, for a body that
\* was active and in the store all along
C19_GravityAccumulation ==
  \A h \in FreeBodies :
    /\ VelocityAfter(h) =
         IF ents[h].components["rigidbody"].use_gravity
         THEN V3(Z(0),
                 RMul(RMul(Gravity[2], fixed_delta_time), Z(StepsTaken(h))),
                 Z(0))
         ELSE Zero3
    /\ (pc = "idle" /\ edits = 0 /\ ents[h].active) => StepsTaken(h) = steps

\* C19 happens: after two steps a free body under gravity has velocity
\* (0, -0.3924, 0)
C19_Witness ==
  /\ pc = "idle"
  /\ steps = 2
  /\ edits = 0
  /\ \E h \in FreeBodies :
       /\ ents[h].components["rigidbody"].use_gravity
       /\ StepsTaken(h) = 2
       /\ VelocityAfter(h) = V3(Z(0), Q(-3924, 10000), Z(0))

\* after two steps a free body without gravity is at rest
C19_WitnessNoGravity ==
  /\ pc = "idle"
  /\ steps = 2
  /\ \E h \in FreeBodies :
       /\ ~ents[h].components["rigidbody"].use_gravity
       /\ StepsTaken(h) = 2
       /\ VelocityAfter(h) = Zero3

\* the component of the normal of contact c along the line from the center
\* of its entity_a to the center of its entity_b
AlongCenters(c) == VDot(c.normal, CenterDelta(c.entity_a, c.entity_b))

\* C20: every CollisionInfo the detector produces has a normal of unit
\* length that points from its entity_a toward its entity_b (it has no
\* component against the line from a's center to b's center) and a strictly
\* positive penetration; a contact of a sphere and a box names the box as
\* entity_a
C20_ContactShape ==
  JustDetected =>
    \A k \in 1..Len(LastContacts) :
      LET c == LastContacts[k]
      IN  /\ VDot(c.normal, c.normal) = Z(1)
          /\ RSign(AlongCenters(c)) >= 0
          /\ RSign(c.penetration) > 0
          /\ ({ShapeOf(c.entity_a), ShapeOf(c.entity_b)} = {"box", "sphere"}
                => ShapeOf(c.entity_a) = "box")

\* what the code does: unit length, positive penetration and box first
\* always; the normal points from a toward b except where it is the
\* fallback normal of a zero distance (sphere center inside or on the box,
\* coincident sphere centers) or where two boxes have equal centers on the
\* axis of the smallest overlap
C20_ContactShapeOfCode ==
  JustDetected =>
    \A k \in 1..Len(LastContacts) :
      LET c == LastContacts[k]
          a == c.entity_a
          b == c.entity_b
      IN  /\ VDot(c.normal, c.normal) = Z(1)
          /\ RSign(c.penetration) > 0
          /\ ({ShapeOf(a), ShapeOf(b)} = {"box", "sphere"}
                => ShapeOf(a) = "box")
          /\ RSign(AlongCenters(c)) > 0
             \/ (ShapeOf(a) = "box" /\ ShapeOf(b) = "sphere"
                   /\ CenterInBox(a, b))
             \/ (ShapeOf(a) = "sphere" /\ ShapeOf(b) = "sphere"
                   /\ CenterDelta(a, b) = Zero3)
             \/ (ShapeOf(a) = "box" /\ ShapeOf(b) = "box"
                   /\ CenterDelta(a, b)[MinOverlapAxis(a, b)] = Z(0))

\* a sphere whose center is inside a box, below the box center, has a
\* contact whose normal points from the sphere toward the box
C20_Witness ==
  /\ JustDetected
  /\ \E k \in 1..Len(LastContacts) :
       /\ ShapeOf(LastContacts[k].entity_a) = "box"
       /\ ShapeOf(LastContacts[k].entity_b) = "sphere"
       /\ RSign(AlongCenters(LastContacts[k])) < 0

(***************************************************************************)
(* Properties of reset (SpecTime)                                          *)
(***************************************************************************)
\* after reset(): the accumulator and the elapsed time are zero and a
\* should_fixed_update() would return false; a should_fixed_update() right
\* after it has returned false and taken nothing off; the first update()
\* after it has brought the accumulator and the elapsed time to the wall
\* time passed since the reset times the time scale, nothing accumulated
\* before the reset included
AfterReset ==
  /\ call.op = "reset" =>
       /\ fixed_accumulator = Z(0)
       /\ time = Z(0)
       /\ fixed_delta_time = call.step
       /\ ~ShouldReturn(fixed_accumulator, fixed_delta_time)
  /\ call.op = "should_after_reset" =>
       /\ ~call.ret
       /\ fixed_accumulator = Z(0)
  /\ call.op = "update_after_reset" =>
       /\ frame.valid
       /\ frame.start = Z(0)
       /\ frame.total = RMul(call.since, call.scale)
       /\ time = RMul(call.since, call.scale)
       /\ RLe(RMul(Z(frame.consumed), fixed_delta_time), frame.total)

\* reset() itself, from before the call to after it
ResetStep ==
  (call'.op = "reset" /\ call' # call) =>
    /\ fixed_accumulator' = Z(0)
    /\ time' = Z(0)
    /\ fixed_delta_time' = fixed_delta_time
    /\ time_scale' = time_scale

\* C21: reset() sets the accumulator and the elapsed time to zero and leaves
\* the fixed step and the time scale unchanged; a should_fixed_update()
\* right after it returns false; and time accumulated before the reset
\* causes no step after it: the first update() after it starts from an
\* empty accumulator and adds only the wall time passed since the reset
C21_Reset == []AfterReset /\ [][ResetStep]_vars

\* C21 happens: the accumulator held three hundredths of a second, reset()
\* was called, and the call of should_fixed_update() after it returned false
C21_Witness ==
  /\ call.op = "should_after_reset"
  /\ ~call.ret
  /\ frame.total = Q(3, 100)
  /\ frame.consumed = 0
  /\ fixed_accumulator = Z(0)

(***************************************************************************)
(* Properties of the physics step, continued (Spec)                        *)
(***************************************************************************)
\* the same entities with is_trigger cleared on every collider
ClearTriggers(heap) ==
  [h \in 1..Len(heap) |->
     IF HasComponent(heap, h, "collider")
     THEN [heap[h] EXCEPT !.components["collider"].is_trigger = FALSE]
     ELSE heap[h]]

\* the entities with a trigger collider
Triggers(heap) ==
  {h \in 1..Len(heap) :
     /\ HasComponent(heap, h, "collider")
     /\ heap[h].components["collider"].is_trigger}

\* C22: is_trigger has no effect in the core: after every step the
\* CollisionInfo list and, but for the flags themselves, the entities are
\* those of the same step run on the scene with every is_trigger cleared;
\* and the step writes no is_trigger flag
C22_TriggerIgnored ==
  StepOver =>
    LET plain == UpdateResult([Store EXCEPT !.ents = ClearTriggers(pre_step)],
                              fixed_delta_time)
    IN  /\ collision_pairs = plain.collision_pairs
        /\ ClearTriggers(ents) = plain.ents
        /\ Triggers(ents) = Triggers(pre_step)

\* C22 happens: a contact of two trigger colliders has been found and
\* resolved, the resolver moved both entities and changed both velocities
C22_Witness ==
  /\ JustResolved
  /\ Resolved.entity_a \in Triggers(ents)
  /\ Resolved.entity_b \in Triggers(ents)
  /\ \A h \in {Resolved.entity_a, Resolved.entity_b} :
       /\ ents[h].transform.position # pre_res[h].transform.position
       /\ VelocityAfter(h) # BodyBefore(h).velocity

(***************************************************************************)
(* Properties of raycast (SpecRay)                                         *)
(***************************************************************************)
\* the distance along the cast ray at which it passes through the center of
\* entity h, as an optional: no value when the center is not on the ray
CenterOnRay(h) ==
  LET to_center == VSub(ents[h].transform.position, history.ray.origin)
      t == VDot(to_center, history.ray.direction)
  IN  IF RSign(t) >= 0 /\ to_center = VScale(history.ray.direction, t)
      THEN <<t>> ELSE <<>>

\* the entities with a box or sphere collider whose center the ray passes
\* through within max_distance: the ray intersects each of them, no farther
\* than its center
RayTargets ==
  {h \in 1..Len(ents) :
     /\ ShapeOf(h) \in {"box", "sphere"}
     /\ CenterOnRay(h) # <<>>
     /\ RLe(CenterOnRay(h)[1], history.ray.max_distance)}

\* C23: raycast returns a hit (entity, position, distance) whenever the ray
\* intersects a box or sphere collider within max_distance, and "no hit"
\* only when it intersects none
C23_RaycastHits ==
  (history.ray.cast /\ RayTargets # {}) => history.ray.result # <<>>

\* what the code does: every raycast returns None
C23_RaycastNone ==
  history.ray.cast => history.ray.result = <<>>

(***************************************************************************)
(* Properties of the scene file (SpecFile)                                 *)
(***************************************************************************)
\* what the claim compares of an entity and, in order, of its children:
\* everything but the id and the identity of the objects
RECURSIVE Describe(_, _)
Describe(st, h) ==
  [name |-> st.ents[h].name,
   active |-> st.ents[h].active,
   transform |-> st.ents[h].transform,
   components |-> st.ents[h].components,
   is_root |-> st.ents[h].parent = None,
   children |-> [i \in 1..Len(st.ents[h].children) |->
                   Describe(st, st.ents[h].children[i])]]

\* the forest of a store, read from the roots
Forest(st) ==
  [i \in 1..Len(st.root_entities) |-> Describe(st, st.root_entities[i])]

RECURSIVE ForestSize(_)
ForestSize(forest) ==
  IF forest = <<>> THEN 0
  ELSE 1 + ForestSize(Head(forest).children) + ForestSize(Tail(forest))

\* C24: saving a scene and loading the file back reproduces the forest: the
\* same roots in the same order, each entity with the same name, active
\* flag, position, rotation and scale, the same component kinds with equal
\* field values, and the same children in the same order; every entity of
\* the store before saving is in the forest, and the store after loading
\* holds as many entities, every one with its parent field naming the entity
\* that lists it
C24_SceneRoundTrip ==
  edit.op = "roundtrip" =>
    /\ Forest(Store) = Forest(edit.pre)
    /\ ForestSize(Forest(edit.pre)) = Len(edit.pre.entities)
    /\ Len(entities) = Len(edit.pre.entities)
    /\ \A h \in Live(Store) :
         \A i \in 1..Len(ents[h].children) :
           ents[ents[h].children[i]].parent = h

\* C24 happens: a scene with a parent, a child and a grandchild, rigidbodies
\* with a velocity and colliders, one of them a trigger, went through the
\* file after an edit
C24_Witness ==
  /\ edit.op = "roundtrip"
  /\ edits >= 1
  /\ \E h \in Live(Store) :
       /\ ents[h].parent # None
       /\ ents[h].children # <<>>
       /\ HasComponent(ents, h, "rigidbody")
       /\ HasComponent(ents, h, "collider")
       /\ ents[h].components["collider"].is_trigger
       /\ ents[ents[h].children[1]].components["rigidbody"].velocity # Zero3
  /\ Forest(Store) = Forest(edit.pre)

(***************************************************************************)
(* Properties of the scripts (SpecScript)                                  *)
(***************************************************************************)
\* C25: once an entity that has script instances is destroyed, on_destroy
\* has been called on each of its instances, the manager holds them no
\* longer, and no update or fixed_update of a later frame has invoked them
C25_ScriptsEndWithEntity ==
  \A script \in AllScripts :
    script.entity \notin Live(Store) =>
      /\ script.on_destroy >= 1
      /\ script \notin HeldScripts
      /\ script.late = 0

\* what the code does: destroy_entity leaves the script manager as it is;
\* on_destroy runs in remove_entity_scripts only, which nothing calls on a
\* destruction
C25_DestroyLeavesScripts ==
  [][(edit'.op = "destroy" /\ Live(Store)' # Live(Store)) =>
       UNCHANGED scriptVars]_vars

\* an entity with a script was destroyed and a later frame has invoked the
\* script, on which on_destroy was never called
C25_Witness ==
  \E script \in HeldScripts :
    /\ script.entity \notin Live(Store)
    /\ script.on_destroy = 0
    /\ script.late >= 1

(***************************************************************************)
(* Properties of the integrator (Spec)                                     *)
(***************************************************************************)
\* _integrate has just run on an entity: the entity, and the entity as it
\* was before (nothing else has written it since the step began)
JustIntegrated == pc = "integrate" /\ li > 1
Integrated == rigidbody_entities[li - 1]
BeforeIntegration == pre_step[Integrated]

\* the velocity after the gain acceleration * step, before drag
GainedVelocity ==
  LET rb == BeforeIntegration.components["rigidbody"]
  IN  VAdd(rb.velocity,
           VScale(IF rb.use_gravity THEN Gravity ELSE Zero3,
                  fixed_delta_time))

\* C26: for a non-kinematic body one integration sets the velocity to
\* (velocity + acceleration*step) * (1 - linear_drag*step), the angular
\* velocity to angular_velocity * (1 - angular_drag*step), and then
\* advances the position by the new velocity * step and the rotation by the
\* new angular velocity * step.  A body at rest under gravity without drag
\* has moved by gravity*step*step; with linear_drag = 1/step the velocity is
\* zero and with linear_drag > 1/step every component has the opposite sign
\* of the gained velocity.
C26_IntegrationOrder ==
  (JustIntegrated
   /\ ~BeforeIntegration.components["rigidbody"].is_kinematic) =>
    LET h == Integrated
        rb == BeforeIntegration.components["rigidbody"]
        after == ents[h].components["rigidbody"]
        factor == RSub(Z(1), RMul(rb.linear_drag, fixed_delta_time))
    IN  /\ after.velocity = VScale(GainedVelocity, factor)
        /\ after.angular_velocity =
             VScale(rb.angular_velocity,
                    RSub(Z(1), RMul(rb.angular_drag, fixed_delta_time)))
        /\ ents[h].transform.position =
             VAdd(BeforeIntegration.transform.position,
                  VScale(after.velocity, fixed_delta_time))
        /\ ents[h].transform.rotation =
             VAdd(BeforeIntegration.transform.rotation,
                  VScale(after.angular_velocity, fixed_delta_time))
        /\ (rb.velocity = Zero3 /\ rb.use_gravity /\ rb.linear_drag = Z(0)) =>
             VSub(ents[h].transform.position,
                  BeforeIntegration.transform.position)
               = VScale(Gravity, RMul(fixed_delta_time, fixed_delta_time))
        /\ RMul(rb.linear_drag, fixed_delta_time) = Z(1) =>
             after.velocity = Zero3
        /\ RGt(RMul(rb.linear_drag, fixed_delta_time), Z(1)) =>
             \A k \in 1..3 :
               RSign(after.velocity[k]) = 0 - RSign(GainedVelocity[k])

\* C26 happens: a falling body with linear drag 75 and a spin has been
\* integrated: its velocity has changed sign and its position and rotation
\* have moved by the new velocities
C26_Witness ==
  /\ JustIntegrated
  /\ BeforeIntegration.components["rigidbody"].linear_drag = Z(75)
  /\ BeforeIntegration.components["rigidbody"].use_gravity
  /\ BeforeIntegration.components["rigidbody"].angular_velocity # Zero3
  /\ RSign(GainedVelocity[1]) > 0
  /\ RSign(VelocityAfter(Integrated)[1]) < 0
  /\ RSign(GainedVelocity[2]) < 0
  /\ RSign(VelocityAfter(Integrated)[2]) > 0
  /\ RLt(ents[Integrated].transform.position[1],
         BeforeIntegration.transform.position[1])
  /\ ents[Integrated].transform.rotation #
       BeforeIntegration.transform.rotation

(***************************************************************************)
(* Properties of the frame (SpecTime)                                      *)
(***************************************************************************)
\* C27: a frame of the playing engine drains and returns: when
\* EngineCore.update has ended, it has returned normally, the loop over
\* should_fixed_update() has taken every whole fixed step off the
\* accumulator, which is left in [0, fixed), and the engine can take the
\* next advance
C27_FrameDrainsAndReturns ==
  (call.op = "engine_update" /\ call.playing) =>
    /\ call.raised = "none"
    /\ RGe(fixed_accumulator, Z(0))
    /\ RLt(fixed_accumulator, fixed_delta_time)

\* what the code does: every frame of the playing engine ends in the
\* TypeError of line 101, before the loop, with the accumulator untouched
C27_FrameRaises ==
  (call.op = "engine_update" /\ call.playing) =>
    /\ call.raised = "TypeError"
    /\ fixed_accumulator = call.accumulator

\* a frame of the playing engine has ended with two fixed steps still in the
\* accumulator
C27_Witness ==
  /\ call.op = "engine_update"
  /\ call.playing
  /\ call.raised = "TypeError"
  /\ RGe(fixed_accumulator, RMul(Z(2), fixed_delta_time))

(***************************************************************************)
(* The scene tree under its four operations (core/scene.py): create_entity *)
(* and destroy_entity of the manager, add_child and remove_child of an     *)
(* entity called on their own, as a script or a panel holding entities may *)
(***************************************************************************)
\* the handles reached from the set S through children lists
RECURSIVE Below(_, _, _)
Below(heap, S, fuel) ==
  IF fuel = 0 THEN S
  ELSE Below(heap,
             S \cup UNION {{heap[x].children[i] : i \in 1..Len(heap[x].children)}
                           : x \in S},
             fuel - 1)

Under(heap, h) ==
  Below(heap, {heap[h].children[i] : i \in 1..Len(heap[h].children)},
        Len(heap))

\* the recursion of destroy_entity(h) meets an entity below itself
CycleBelow(heap, h) ==
  \E x \in {h} \cup Under(heap, h) : x \in Under(heap, x)

\* SceneManager.create_entity(name, parent)
TreeCreate(name, parent) ==
  /\ Len(ents) < MaxObjects
  /\ StoreBecomes(CreateEntity(Store, name, parent))
  /\ edit' = [op |-> "create", target |-> Len(ents) + 1]
  /\ UNCHANGED <<scriptVars, timeVars, physVars>>

\* SceneManager.destroy_entity(entity); on a cycle of children lists the
\* recursion of lines 81-82 does not end (RecursionError), left out here
TreeDestroy(h) ==
  /\ ~CycleBelow(ents, h)
  /\ StoreBecomes(DestroyEntity(Store, h))
  /\ edit' = [op |-> "destroy", target |-> h, pre |-> Store]
  /\ UNCHANGED <<scriptVars, timeVars, physVars>>

\* parent.add_child(child), both entities of the store
TreeAddChild(p, c) ==
  /\ edits < MaxLinks
  /\ ents' = AddChild(ents, p, c)
  /\ edit' = [op |-> "add_child", target |-> c, to |-> p, pre |-> Store]
  /\ edits' = edits + 1
  /\ UNCHANGED <<entities, root_entities, next_entity_id>>
  /\ UNCHANGED <<collision_pairs, rigidbody_entities, pc, li, lj, trace,
                 pre_step, post_int, pre_res, steps>>
  /\ UNCHANGED <<scriptVars, timeVars, history>>

\* parent.remove_child(child), both entities of the store
TreeRemoveChild(p, c) ==
  /\ edits < MaxLinks
  /\ ents' = RemoveChild(ents, p, c)
  /\ edit' = [op |-> "remove_child", target |-> c, to |-> p, pre |-> Store]
  /\ edits' = edits + 1
  /\ UNCHANGED <<entities, root_entities, next_entity_id>>
  /\ UNCHANGED <<collision_pairs, rigidbody_entities, pc, li, lj, trace,
                 pre_step, post_int, pre_res, steps>>
  /\ UNCHANGED <<scriptVars, timeVars, history>>

TreeNext ==
  \/ \E name \in Names, parent \in Live(Store) \cup {None} :
       TreeCreate(name, parent)
  \/ \E h \in Live(Store) : TreeDestroy(h)
  \/ \E p \in Live(Store), c \in Live(Store) : TreeAddChild(p, c)
  \/ \E p \in Live(Store), c \in Live(Store) : TreeRemoveChild(p, c)

\* the scene tree on its own
SpecTree == EngineInit /\ [][TreeNext]_vars

(***************************************************************************)
(* Properties of the scene tree (SpecTree)                                 *)
(***************************************************************************)
Occurrences(s, x) == Cardinality({i \in 1..Len(s) : s[i] = x})

\* how often h is listed: in the root list and in the children lists of the
\* entities of the table
ListedAsRoot(st, h) == Occurrences(st.root_entities, h)
ListedUnder(st, p, h) == Occurrences(st.ents[p].children, h)
RECURSIVE SumListed(_, _, _)
SumListed(st, ps, h) ==
  IF ps = {} THEN 0
  ELSE LET p == CHOOSE p \in ps : TRUE
       IN  ListedUnder(st, p, h) + SumListed(st, ps \ {p}, h)
Listings(st, h) == ListedAsRoot(st, h) + SumListed(st, Live(st), h)

\* (1) whatever a list of the forest names is in the id table
ListedAreLive(st) ==
  /\ \A i \in 1..Len(st.root_entities) : st.root_entities[i] \in Live(st)
  /\ \A p \in Live(st) : \A i \in 1..Len(st.ents[p].children) :
       st.ents[p].children[i] \in Live(st)

\* (2) an entity of the table is listed once, where its parent field says
ListedOnce(st) ==
  \A h \in Live(st) :
    /\ Listings(st, h) = 1
    /\ IF st.ents[h].parent = None
       THEN ListedAsRoot(st, h) = 1
       ELSE /\ st.ents[h].parent \in Live(st)
            /\ ListedUnder(st, st.ents[h].parent, h) = 1

\* (3) following parent fields from h never comes back to h
RECURSIVE ClimbsTo(_, _, _, _)
ClimbsTo(heap, from, target, fuel) ==
  IF fuel = 0 \/ heap[from].parent = None THEN FALSE
  ELSE \/ heap[from].parent = target
       \/ ClimbsTo(heap, heap[from].parent, target, fuel - 1)
NoParentCycle(st) ==
  \A h \in Live(st) : ~ClimbsTo(st.ents, h, h, Len(st.ents))

TreeConsistent(st) ==
  ListedAreLive(st) /\ ListedOnce(st) /\ NoParentCycle(st)

\* C28: after any sequence of create_entity, add_child, remove_child and
\* destroy_entity, whatever the forest lists is in the id table, every
\* entity of the table is listed exactly once, under the entity its parent
\* field names or as a root, and the parent relation has no cycle
C28_TreeConsistency == TreeConsistent(Store)

\* what the code keeps: as long as only create_entity and destroy_entity
\* have been called, the tree is consistent
C28_ConsistentUntilLinked == (edits = 0) => TreeConsistent(Store)

\* a root has been made a child by add_child: it is listed twice
C28_Witness ==
  /\ edit.op = "add_child"
  /\ TreeConsistent(edit.pre)
  /\ edit.pre.ents[edit.target].parent = None
  /\ Listings(Store, edit.target) = 2

(***************************************************************************)
(* Properties of the resolver with a kinematic side (Spec)                 *)
(***************************************************************************)
\* the contact just resolved has one kinematic side, and the other side was
\* approaching it along the normal
OneKinematicApproaching ==
  /\ JustResolved
  /\ BodyBefore(Resolved.entity_a).is_kinematic #
       BodyBefore(Resolved.entity_b).is_kinematic
  /\ RSign(NormalVelocityBefore) < 0

KinematicSide ==
  IF BodyBefore(Resolved.entity_a).is_kinematic
  THEN Resolved.entity_a ELSE Resolved.entity_b
DynamicSide ==
  IF BodyBefore(Resolved.entity_a).is_kinematic
  THEN Resolved.entity_b ELSE Resolved.entity_a

\* C29: a kinematic body acts as an infinite mass: when one side of a
\* contact is kinematic and the other approaches it along the normal with
\* relative normal velocity vn < 0, the relative normal velocity after the
\* resolver has run is -0.5 * vn, so the bodies no longer approach, whatever
\* the two masses are
C29_KinematicInfiniteMass ==
  OneKinematicApproaching =>
    /\ NormalVelocityAfter = RMul(Q(-1, 2), NormalVelocityBefore)
    /\ RSign(NormalVelocityAfter) >= 0

\* what the code does: the kinematic body's mass is part of the impulse
\* denominator, and only the dynamic side's share impulse / mass is applied,
\* so the relative normal velocity becomes
\* vn * (1 - 1.5 * mass_kinematic / (mass_kinematic + mass_dynamic))
C29_KinematicMassCounts ==
  OneKinematicApproaching =>
    LET mk == BodyBefore(KinematicSide).mass
        md == BodyBefore(DynamicSide).mass
    IN  /\ VelocityAfter(KinematicSide) = BodyBefore(KinematicSide).velocity
        /\ NormalVelocityAfter =
             RMul(NormalVelocityBefore,
                  RSub(Z(1), RDiv(RMul(Q(3, 2), mk), RAdd(mk, md))))

\* a dynamic body that approached a kinematic one of the same mass still
\* approaches it after the resolver has run, at a quarter of the speed
C29_Witness ==
  /\ OneKinematicApproaching
  /\ BodyBefore(KinematicSide).mass = BodyBefore(DynamicSide).mass
  /\ NormalVelocityAfter = RMul(Q(1, 4), NormalVelocityBefore)
  /\ RSign(NormalVelocityAfter) < 0

(***************************************************************************)
(* Properties of the resolver: momentum (Spec)                             *)
(***************************************************************************)
BodyAfter(h) == ents[h].components["rigidbody"]
Momentum(body) == VScale(body.velocity, body.mass)

\* the contact just resolved is between two non-kinematic bodies
BothDynamic ==
  /\ JustResolved
  /\ ~BodyBefore(Resolved.entity_a).is_kinematic
  /\ ~BodyBefore(Resolved.entity_b).is_kinematic

\* C30: resolving a contact between two non-kinematic bodies leaves the
\* total linear momentum mass_a * v_a + mass_b * v_b unchanged on every
\* axis: a loses impulse / mass_a and b gains impulse / mass_b of one and
\* the same impulse vector; both angular velocities, both masses and both
\* rotations stay as they were
C30_MomentumConserved ==
  BothDynamic =>
    LET a == Resolved.entity_a
        b == Resolved.entity_b
    IN  /\ VAdd(Momentum(BodyAfter(a)), Momentum(BodyAfter(b))) =
             VAdd(Momentum(BodyBefore(a)), Momentum(BodyBefore(b)))
        /\ VScale(VSub(BodyBefore(a).velocity, BodyAfter(a).velocity),
                  BodyBefore(a).mass) =
             VScale(VSub(BodyAfter(b).velocity, BodyBefore(b).velocity),
                    BodyBefore(b).mass)
        /\ \A h \in {a, b} :
             /\ BodyAfter(h).angular_velocity = BodyBefore(h).angular_velocity
             /\ BodyAfter(h).mass = BodyBefore(h).mass
             /\ RSign(BodyAfter(h).mass) > 0
             /\ ents[h].transform.rotation = pre_res[h].transform.rotation

\* C30 happens: two bodies of different mass have exchanged an impulse that
\* changed both velocities
C30_Witness ==
  /\ BothDynamic
  /\ BodyBefore(Resolved.entity_a).mass # BodyBefore(Resolved.entity_b).mass
  /\ BodyAfter(Resolved.entity_a).velocity #
       BodyBefore(Resolved.entity_a).velocity
  /\ BodyAfter(Resolved.entity_b).velocity #
       BodyBefore(Resolved.entity_b).velocity

=============================================================================
